---- MODULE Spec2Model ----
(***************************************************************************)
(* A model of the filedag-storage DagPool service and of the DagNode       *)
(* beneath it.                                                             *)
(*                                                                         *)
(*   Spec      the pool service: concurrent Add / Get / GetSize / Remove   *)
(*             callers, the reference counter, the cache set and the       *)
(*             garbage collector (dag/pool/poolservice).                   *)
(*   SpecNode  one DagNode: Put / Get / GetSize / DeleteBlock striping a   *)
(*             block over its slice nodes (dag/node).                      *)
(*                                                                         *)
(* The two layers have disjoint state; each specification holds the other  *)
(* layer's variables at their initial values.                              *)
(***************************************************************************)
EXTENDS Integers, Sequences, FiniteSets, TLC

VARIABLES
    \* ---- pool service (dagPoolService) ----
    refCounter,   \* reference.RefCounter: cid -> pin count (0: no entry)
    cacheSet,     \* reference.CacheSet: the cids stored by an unpinned Add
    keyLock,      \* the ref counter's per-key lock: cid -> holder
    blockStore,   \* what the slot's DagNode holds: cid -> payload or NoBlock
    gcPc,         \* the collector: "idle", "scan" or "delete"
    gcTodo,       \* the cids the running cycle has still to visit
    gcKey,        \* the cid whose check-and-delete the collector is in
    gcInterrupt,  \* InterruptGC was signalled to the running cycle
    pc,           \* each caller's position in its handler
    call,         \* each caller's current (or last) request
    res,          \* the reply the service returned last
    calls,        \* requests issued so far
    hist,         \* per cid: what has completed so far (history only)
    \* ---- one DagNode (dag/node) ----
    dataBlocks,   \* DagNode.dataBlocks: k
    parityBlocks, \* DagNode.parityBlocks: m
    db,           \* DagNode.db: cid -> length of the block put under it
    caskMap,      \* per slice node: the ids of the casks it has created
    casks,        \* per slice node: key -> the value its cask holds
    nodeRes,      \* the reply the DagNode returned last
    nodeOps,      \* DagNode calls made so far
    stored,       \* cids whose last Put returned nil, not deleted since (history)
    \* ---- slot table and slot migration (dagPoolService) ----
    slots,              \* dagPoolService.slots: slot -> owner DagNode
    importingSlotsFrom, \* dagPoolService.importingSlotsFrom: slot -> previous owner
    dagNodesMap,        \* dagPoolService.dagNodesMap: the DagNodes of the cluster
    slotMigrateRepo,    \* the persisted migration journal: slot -> entry
    held,               \* per DagNode: the keys it stores
    migTodo,            \* keys the engine has still to copy or delete (volatile)
    up,                 \* the service process is running
    getting,            \* the Get in progress, between its two reads (volatile)
    migRes,             \* the reply of the last Get
    live,               \* keys added and not deleted since (history)
    during,             \* keys added during the migration in the journal (history)
    migCount,           \* client calls, crashes and migrations so far,
                        \* whether a restart found an entry in the journal,
                        \* and whether a delete during the migration in the
                        \* journal found the key on the previous owner
    adminRes,           \* the reply of the last admin call
    \* one cask of a DataNode store
    vlog,               \* the value log: a sequence of records
    hint,               \* the hint log: a sequence of records
    index,              \* the in-memory index: key -> (value_pos, value_len)
    storePc,            \* how far the write under way has got
    storeUp,            \* the store is open
    applied,            \* number of vlog records the index reflects (history)
    storeRes,           \* the reply of the last Get
    storeCount,         \* writes, crashes and damaged records so far
    tombAt,             \* key -> the tombstone of its last Delete that returned
                        \* with no Put since: its position (0 if none) and
                        \* whether recovery has kept it (history)
    \* --- one repo directory and the callers of NewSliceNode on it ---
    repoLock,           \* the caller whose fslock.Lock holds repo.lock, or NoOpener
    slicePc,            \* caller -> how far its NewSliceNode / SliceNode has got
    sliceCaskMap,       \* caller -> its SliceNode has a cask map (m.caskMap)
    sliceRes,           \* caller -> what its last NewSliceNode returned
    repoCount,          \* calls so far; a Lock lost to a racing caller (history)
    \* --- one SliceNode, its create-cask goroutine and the Puts using it ---
    closeChan,          \* m.closeChan is closed
    handlerPc,          \* the goroutine of handleCreateCask: select, handling, exited
    handlerReq,         \* the Put whose request the goroutine holds, or NoPutter
    ids,                \* the goroutine's ids: cask ids it has created
    caskAdds,           \* cask id -> number of m.caskMap.Add calls for it; the
                        \* cask in the map is the one added last
    putPc,              \* Put -> where it is in the loop body for this SliceNode
    putReq,             \* Put -> the cask id it needs and the cask it holds
    putRes,             \* Put -> what its last call returned
    putCalls,           \* Put calls so far
    \* --- the user table behind d.iam and the callers of the user handlers ---
    users,              \* username -> user record, the admin account included
    userPc,             \* caller -> where its handler is: idle, add, update, query
    userCall,           \* caller -> the request its handler works on
    userRes,            \* what the last request that returned returned
    userCalls,          \* requests so far
    \* --- one object of the object store, its DAGs in the pool, its callers ---
    objMeta,            \* the ObjectInfo in s.Db under the object's key: the cid
                        \* in its ETag, or NoMeta
    dagRef,             \* cid -> reference count of the DAG in the pool
    nsLock,             \* the object's namespace lock: its writer and its readers
    objPc,              \* caller -> where its call is: idle, lock, put, get
    objCall,            \* caller -> the cid its call works on
    removals,           \* cid -> goroutines started to remove the DAG, not yet run
    objRes,             \* what the last call that returned returned
    objCalls            \* calls so far

poolVars == <<refCounter, cacheSet, keyLock, blockStore, gcPc, gcTodo, gcKey,
              gcInterrupt, pc, call, res, calls, hist>>

nodeVars == <<dataBlocks, parityBlocks, db, caskMap, casks, nodeRes, nodeOps,
              stored>>

migVars == <<slots, importingSlotsFrom, dagNodesMap, slotMigrateRepo, held,
             migTodo, up, getting, migRes, live, during, migCount, adminRes>>

storeVars == <<vlog, hint, index, storePc, storeUp, applied, storeRes, storeCount,
               tombAt>>

repoVars == <<repoLock, slicePc, sliceCaskMap, sliceRes, repoCount>>

caskVars == <<closeChan, handlerPc, handlerReq, ids, caskAdds, putPc, putReq,
              putRes, putCalls>>

userVars == <<users, userPc, userCall, userRes, userCalls>>

objVars == <<objMeta, dagRef, nsLock, objPc, objCall, removals, objRes, objCalls>>

vars == <<poolVars, nodeVars, migVars, storeVars, repoVars, caskVars, userVars,
          objVars>>

\* What a step of one layer leaves alone.
PoolFrame == UNCHANGED <<nodeVars, migVars, storeVars, repoVars, caskVars, userVars, objVars>>
NodeFrame == UNCHANGED <<poolVars, migVars, storeVars, repoVars, caskVars, userVars, objVars>>
MigFrame == UNCHANGED <<poolVars, nodeVars, storeVars, repoVars, caskVars, userVars, objVars>>
StoreFrame == UNCHANGED <<poolVars, nodeVars, migVars, repoVars, caskVars, userVars, objVars>>
RepoFrame == UNCHANGED <<poolVars, nodeVars, migVars, storeVars, caskVars, userVars, objVars>>
CaskFrame == UNCHANGED <<poolVars, nodeVars, migVars, storeVars, repoVars, userVars, objVars>>
UserFrame == UNCHANGED <<poolVars, nodeVars, migVars, storeVars, repoVars, caskVars, objVars>>
ObjFrame == UNCHANGED <<poolVars, nodeVars, migVars, storeVars, repoVars, caskVars, userVars>>

----------------------------------------------------------------------------
(* Bounds of the pool model. *)

\* concurrent callers of the service
NProcs == 2
\* requests issued in one behaviour
MaxCalls == 4
\* distinct blocks the callers add
MaxBlocks == 1

Procs == 1..NProcs

\* A block's payload: MaxBlocks payloads of different lengths.
PoolPayloads == {[i \in 1..n |-> 1] : n \in 1..MaxBlocks}

NoBlock == <<>>

\* block.Cid(): a hash of the payload, one cid per payload.
CidOf(payload) == <<"cid", Len(payload)>>

Keys == {CidOf(b) : b \in PoolPayloads}

\* Holders of a per-key lock.
Free == <<"free">>
ByGc == <<"gc">>
ByProc(p) == <<"proc", p>>

NoKey == <<"cid", 0>>

(* A request: the handler, its cid, the block of an Add, its pin or unpin  *)
(* flag and (history) whether a Get or GetSize was issued after an Add of  *)
(* its cid had returned nil with no Remove of the cid since.               *)
NoCall == [op |-> "none", key |-> NoKey, block |-> NoBlock, flag |-> FALSE,
           after |-> FALSE]

\* A reply: the request it answers, the outcome and the value returned.
NoReply == [req |-> NoCall, st |-> "none", data |-> NoBlock, size |-> 0]

Reply(req, st) == [req |-> req, st |-> st, data |-> NoBlock, size |-> 0]

(* History of one cid, read only by the properties:
     pins      authorized Add(pin=true) calls issued
     pinOk     Add(pin=true) calls that returned nil
     unpinOk   Remove(unpin=true) calls that returned nil
     unpinned  an authorized Add(pin=false) was issued
     removed   an authorized Remove was issued
     puts      putBlock calls issued
     putFailed a putBlock call failed
     overlap   a pinned Add was issued while another pinned Add was running
     fresh     an Add returned nil and no Remove was issued since
     phase     how far the cid is through the sequence "Add(pin=false), then
               Add(pin=true), then Remove(unpin=true)", each issued after the
               one before returned nil and with no other Add or Remove of
               the cid: none, caching, cached, pinning, pinned, unpinned;
               off once its calls are not that sequence
     garbage   when the current (or last) collector cycle started the block
               was stored, every pin of it had been removed, it was not
               cached and no Add of it was running, and no Add of it was
               issued since
     swept     the current (or last) collector cycle deleted the block while
               the cid was pinned or in the cache set                        *)
NoHist == [pins |-> 0, pinOk |-> 0, unpinOk |-> 0, unpinned |-> FALSE, removed |-> FALSE,
           puts |-> 0, putFailed |-> FALSE, overlap |-> FALSE, fresh |-> FALSE,
           phase |-> "none", garbage |-> FALSE, swept |-> FALSE]

PoolInit ==
    /\ refCounter = [k \in Keys |-> 0]
    /\ cacheSet = {}
    /\ keyLock = [k \in Keys |-> Free]
    /\ blockStore = [k \in Keys |-> NoBlock]
    /\ gcPc = "idle"
    /\ gcTodo = {}
    /\ gcKey = NoKey
    /\ gcInterrupt = FALSE
    /\ pc = [p \in Procs |-> "idle"]
    /\ call = [p \in Procs |-> NoCall]
    /\ res = NoReply
    /\ calls = 0
    /\ hist = [k \in Keys |-> NoHist]

----------------------------------------------------------------------------
(* The collaborators of the service whose code is not in the repository's  *)
(* files, from sections 4.E and 4.G of the specification.                  *)

\* refCounter.Has(key): true iff the count is at least 1.
RefCounterHas(k) == refCounter[k] >= 1

\* cacheSet.Has(key)
CacheSetHas(k) == k \in cacheSet

\* dagPoolService.Has(key) on given tables: pinned or cached.
HasIn(counts, cached, k) == counts[k] >= 1 \/ k \in cached

Has(k) == HasIn(refCounter, cacheSet, k)

\* putBlock(block) that succeeded: the slot's DagNode holds the block.
putBlock(store, b) == [store EXCEPT ![CidOf(b)] = b]

\* readBlock(cid): the payload the slot's DagNode holds under the cid.
readBlock(k) == blockStore[k]

\* InterruptGC(): a running collector cycle is told to abort.
InterruptGC == gcInterrupt' = (gcInterrupt \/ gcPc # "idle")

\* An Add, Get, GetSize or Remove of key k that has not returned yet.
InFlight(k) == {p \in Procs : pc[p] # "idle" /\ call[p].key = k}
PinInFlight(k) == {p \in InFlight(k) : call[p].op = "Add" /\ call[p].flag}

\* The handler of caller p returns.
Return(p, req, st, data, size) ==
    /\ pc' = [pc EXCEPT ![p] = "idle"]
    /\ call' = [call EXCEPT ![p] = NoCall]
    /\ res' = [req |-> req, st |-> st, data |-> data, size |-> size]

Done(p, st) == Return(p, call[p], st, NoBlock, 0)

\* The handler of caller p starts on request req and goes on at label.
Begin(p, req, label) ==
    /\ pc' = [pc EXCEPT ![p] = label]
    /\ call' = [call EXCEPT ![p] = req]
    /\ UNCHANGED res

Goto(p, label) ==
    /\ pc' = [pc EXCEPT ![p] = label]
    /\ UNCHANGED <<call, res>>

\* An Add of k returned nil.
AddOk(h, pinned) ==
    [h EXCEPT !.fresh = TRUE,
              !.pinOk = IF pinned THEN @ + 1 ELSE @,
              !.phase = IF pinned /\ @ = "pinning" THEN "pinned"
                        ELSE IF ~pinned /\ @ = "caching" THEN "cached"
                        ELSE "off"]

\* An authorized Add of a cid with history h is issued (before h counts it).
AddIssued(h, pinned) ==
    [h EXCEPT !.garbage = FALSE,
              !.phase = IF pinned /\ @ = "cached" THEN "pinning"
                        ELSE IF /\ ~pinned
                                /\ @ = "none"
                                /\ h.pins = 0
                                /\ ~h.unpinned
                                /\ ~h.removed
                                /\ gcPc = "idle"
                          THEN "caching"
                        ELSE "off"]

\* Every pin of k was removed and k was not left in the cache set.
Unpinned(k) ==
    /\ hist[k].pinOk >= 1
    /\ hist[k].pinOk = hist[k].unpinOk
    /\ ~hist[k].unpinned \/ hist[k].phase = "unpinned"

----------------------------------------------------------------------------
(* dagPoolService.Has, run by Add (unpinned), Get and GetSize: two reads,   *)
(* of the ref counter and then of the cache set.                           *)

\* AfterHas as it would be if Get and GetSize read the DagNode whatever Has
\* answered.
AfterHasReadsAnyway(p, has) ==
    LET k == call[p].key IN
    IF call[p].op = "Add"
      THEN IF has
             THEN /\ Done(p, "ok")
                  /\ hist' = [hist EXCEPT ![k] = AddOk(@, FALSE)]
             ELSE /\ Goto(p, "put")
                  /\ UNCHANGED hist
      ELSE /\ Goto(p, "read")
           /\ UNCHANGED hist

\* What the caller of Has does with its answer.
AfterHas(p, has) ==
    LET k == call[p].key IN
    IF call[p].op = "Add"
      THEN IF has
             THEN /\ Done(p, "ok")
                  /\ hist' = [hist EXCEPT ![k] = AddOk(@, FALSE)]
             ELSE /\ Goto(p, "put")
                  /\ UNCHANGED hist
      ELSE /\ IF has THEN Goto(p, "read") ELSE Done(p, "notfound")
           /\ UNCHANGED hist

HasRefCounter(p) ==
    /\ pc[p] = "hasRef"
    /\ IF RefCounterHas(call[p].key)
         THEN AfterHas(p, TRUE)
         ELSE Goto(p, "hasCache") /\ UNCHANGED hist
    /\ UNCHANGED <<refCounter, cacheSet, keyLock, blockStore, gcPc, gcTodo,
                   gcKey, gcInterrupt, calls>>
    /\ PoolFrame

HasCacheSet(p) ==
    /\ pc[p] = "hasCache"
    /\ AfterHas(p, CacheSetHas(call[p].key))
    /\ UNCHANGED <<refCounter, cacheSet, keyLock, blockStore, gcPc, gcTodo,
                   gcKey, gcInterrupt, calls>>
    /\ PoolFrame

----------------------------------------------------------------------------
(* dagPoolService.Add *)

\* Add as it would be if the pinned path stored the block itself before
\* asking the ref counter.
AddPutsFirst(p) ==
    /\ pc[p] = "idle"
    /\ calls < MaxCalls
    /\ calls' = calls + 1
    /\ \E b \in PoolPayloads, pin \in BOOLEAN, authorized \in BOOLEAN :
         LET key == CidOf(b)
             req == [op |-> "Add", key |-> key, block |-> b, flag |-> pin,
                     after |-> FALSE]
         IN  IF ~authorized
               THEN /\ Return(p, req, "denied", NoBlock, 0)
                    /\ UNCHANGED <<gcInterrupt, hist, blockStore>>
               ELSE IF pin
                 THEN /\ InterruptGC
                      /\ Begin(p, req, "incr")
                      /\ blockStore' = putBlock(blockStore, b)
                      /\ hist' = [hist EXCEPT ![key] =
                                    [AddIssued(@, TRUE) EXCEPT
                                       !.pins = @ + 1,
                                       !.puts = @ + 1,
                                       !.overlap = @ \/ PinInFlight(key) # {}]]
                 ELSE /\ Begin(p, req, "hasRef")
                      /\ hist' = [hist EXCEPT ![key] =
                                    [AddIssued(@, FALSE) EXCEPT !.unpinned = TRUE]]
                      /\ UNCHANGED <<gcInterrupt, blockStore>>
    /\ UNCHANGED <<refCounter, cacheSet, keyLock, gcPc, gcTodo, gcKey>>
    /\ PoolFrame

\* Add as it would be if it signalled the collector before the policy check.
AddInterruptsBeforeCheck(p) ==
    /\ pc[p] = "idle"
    /\ calls < MaxCalls
    /\ calls' = calls + 1
    /\ InterruptGC
    /\ \E b \in PoolPayloads, pin \in BOOLEAN, authorized \in BOOLEAN :
         LET key == CidOf(b)
             req == [op |-> "Add", key |-> key, block |-> b, flag |-> pin,
                     after |-> FALSE]
         IN  IF ~authorized
               THEN /\ Return(p, req, "denied", NoBlock, 0)
                    /\ UNCHANGED hist
               ELSE IF pin
                 THEN /\ Begin(p, req, "incr")
                      /\ hist' = [hist EXCEPT ![key] =
                                    [AddIssued(@, TRUE) EXCEPT
                                       !.pins = @ + 1,
                                       !.overlap = @ \/ PinInFlight(key) # {}]]
                 ELSE /\ Begin(p, req, "hasRef")
                      /\ hist' = [hist EXCEPT ![key] =
                                    [AddIssued(@, FALSE) EXCEPT !.unpinned = TRUE]]
    /\ UNCHANGED <<refCounter, cacheSet, keyLock, blockStore, gcPc, gcTodo, gcKey>>
    /\ PoolFrame

Add(p) ==
    /\ pc[p] = "idle"
    /\ calls < MaxCalls
    /\ calls' = calls + 1
    /\ \E b \in PoolPayloads, pin \in BOOLEAN, authorized \in BOOLEAN :
         LET key == CidOf(b)
             req == [op |-> "Add", key |-> key, block |-> b, flag |-> pin,
                     after |-> FALSE]
         IN  IF ~authorized
               THEN /\ Return(p, req, "denied", NoBlock, 0)
                    /\ UNCHANGED <<gcInterrupt, hist>>
               ELSE IF pin
                 THEN /\ InterruptGC
                      /\ Begin(p, req, "incr")
                      /\ hist' = [hist EXCEPT ![key] =
                                    [AddIssued(@, TRUE) EXCEPT
                                       !.pins = @ + 1,
                                       !.overlap = @ \/ PinInFlight(key) # {}]]
                 ELSE /\ Begin(p, req, "hasRef")
                      /\ hist' = [hist EXCEPT ![key] =
                                    [AddIssued(@, FALSE) EXCEPT !.unpinned = TRUE]]
                      /\ UNCHANGED gcInterrupt
    /\ UNCHANGED <<refCounter, cacheSet, keyLock, blockStore, gcPc, gcTodo, gcKey>>
    /\ PoolFrame

\* Unpinned, Has was false: addBlock().
AddPutBlock(p) ==
    /\ pc[p] = "put"
    /\ \E ok \in BOOLEAN :
         LET k == call[p].key IN
         IF ok
           THEN /\ blockStore' = putBlock(blockStore, call[p].block)
                /\ hist' = [hist EXCEPT ![k].puts = @ + 1]
                /\ Goto(p, "cacheAdd")
           ELSE /\ hist' = [hist EXCEPT ![k].puts = @ + 1, ![k].putFailed = TRUE]
                /\ Done(p, "puterr")
                /\ UNCHANGED blockStore
    /\ UNCHANGED <<refCounter, cacheSet, keyLock, gcPc, gcTodo, gcKey,
                   gcInterrupt, calls>>
    /\ PoolFrame

\* Unpinned, the block is put: return d.cacheSet.Add(key).
AddCacheSet(p) ==
    /\ pc[p] = "cacheAdd"
    /\ cacheSet' = cacheSet \cup {call[p].key}
    /\ hist' = [hist EXCEPT ![call[p].key] = AddOk(@, FALSE)]
    /\ Done(p, "ok")
    /\ UNCHANGED <<refCounter, keyLock, blockStore, gcPc, gcTodo, gcKey,
                   gcInterrupt, calls>>
    /\ PoolFrame

(* Pinned: refCounter.IncrOrCreate(key, addBlock) takes the per-key lock;  *)
(* a count of at least 1 is incremented at once, a count of 0 runs the     *)
(* create callback while the lock is held.  A key that was in the cache    *)
(* set leaves it.                                                          *)
IncrOrCreate(p) ==
    /\ pc[p] = "incr"
    /\ LET k == call[p].key IN
       /\ keyLock[k] = Free
       /\ IF refCounter[k] >= 1
            THEN /\ refCounter' = [refCounter EXCEPT ![k] = @ + 1]
                 /\ cacheSet' = cacheSet \ {k}
                 /\ hist' = [hist EXCEPT ![k] = AddOk(@, TRUE)]
                 /\ Done(p, "ok")
                 /\ UNCHANGED keyLock
            ELSE /\ keyLock' = [keyLock EXCEPT ![k] = ByProc(p)]
                 /\ Goto(p, "create")
                 /\ UNCHANGED <<refCounter, cacheSet, hist>>
    /\ UNCHANGED <<blockStore, gcPc, gcTodo, gcKey, gcInterrupt, calls>>
    /\ PoolFrame

(* The create callback addBlock() inside IncrOrCreate, and IncrOrCreate's  *)
(* return: the count becomes 1 and the key leaves the cache set if the     *)
(* block was put, nothing is kept of the increment if it was not.          *)
\* AddBlock as it would be if a failed create left the increment in place.
AddBlockNoRollback(p) ==
    /\ pc[p] = "create"
    /\ \E ok \in BOOLEAN :
         LET k == call[p].key IN
         IF ok
           THEN /\ blockStore' = putBlock(blockStore, call[p].block)
                /\ refCounter' = [refCounter EXCEPT ![k] = @ + 1]
                /\ cacheSet' = cacheSet \ {k}
                /\ hist' = [hist EXCEPT ![k] = AddOk([@ EXCEPT !.puts = @ + 1], TRUE)]
                /\ Done(p, "ok")
           ELSE /\ hist' = [hist EXCEPT ![k].puts = @ + 1, ![k].putFailed = TRUE]
                /\ refCounter' = [refCounter EXCEPT ![k] = @ + 1]
                /\ Done(p, "puterr")
                /\ UNCHANGED <<blockStore, cacheSet>>
    /\ keyLock' = [keyLock EXCEPT ![call[p].key] = Free]
    /\ UNCHANGED <<gcPc, gcTodo, gcKey, gcInterrupt, calls>>
    /\ PoolFrame

\* AddBlock as it would be if a cached key stayed in the cache set.
AddBlockKeepsCached(p) ==
    /\ pc[p] = "create"
    /\ \E ok \in BOOLEAN :
         LET k == call[p].key IN
         IF ok
           THEN /\ blockStore' = putBlock(blockStore, call[p].block)
                /\ refCounter' = [refCounter EXCEPT ![k] = @ + 1]
                /\ hist' = [hist EXCEPT ![k] = AddOk([@ EXCEPT !.puts = @ + 1], TRUE)]
                /\ Done(p, "ok")
                /\ UNCHANGED cacheSet
           ELSE /\ hist' = [hist EXCEPT ![k].puts = @ + 1, ![k].putFailed = TRUE]
                /\ Done(p, "puterr")
                /\ UNCHANGED <<blockStore, refCounter, cacheSet>>
    /\ keyLock' = [keyLock EXCEPT ![call[p].key] = Free]
    /\ UNCHANGED <<gcPc, gcTodo, gcKey, gcInterrupt, calls>>
    /\ PoolFrame

AddBlock(p) ==
    /\ pc[p] = "create"
    /\ \E ok \in BOOLEAN :
         LET k == call[p].key IN
         IF ok
           THEN /\ blockStore' = putBlock(blockStore, call[p].block)
                /\ refCounter' = [refCounter EXCEPT ![k] = @ + 1]
                /\ cacheSet' = cacheSet \ {k}
                /\ hist' = [hist EXCEPT ![k] = AddOk([@ EXCEPT !.puts = @ + 1], TRUE)]
                /\ Done(p, "ok")
           ELSE /\ hist' = [hist EXCEPT ![k].puts = @ + 1, ![k].putFailed = TRUE]
                /\ Done(p, "puterr")
                /\ UNCHANGED <<blockStore, refCounter, cacheSet>>
    /\ keyLock' = [keyLock EXCEPT ![call[p].key] = Free]
    /\ UNCHANGED <<gcPc, gcTodo, gcKey, gcInterrupt, calls>>
    /\ PoolFrame

----------------------------------------------------------------------------
(* dagPoolService.Get and GetSize *)

Get(p) ==
    /\ pc[p] = "idle"
    /\ calls < MaxCalls
    /\ calls' = calls + 1
    /\ \E k \in Keys, authorized \in BOOLEAN :
         LET req == [op |-> "Get", key |-> k, block |-> NoBlock, flag |-> FALSE,
                     after |-> hist[k].fresh]
         IN  IF authorized THEN Begin(p, req, "hasRef")
                           ELSE Return(p, req, "denied", NoBlock, 0)
    /\ UNCHANGED <<refCounter, cacheSet, keyLock, blockStore, gcPc, gcTodo,
                   gcKey, gcInterrupt, hist>>
    /\ PoolFrame

\* return d.readBlock(ctx, c)
ReadBlock(p) ==
    /\ pc[p] = "read"
    /\ call[p].op = "Get"
    /\ LET data == readBlock(call[p].key) IN
       IF data = NoBlock THEN Done(p, "notfound")
                         ELSE Return(p, call[p], "ok", data, 0)
    /\ UNCHANGED <<refCounter, cacheSet, keyLock, blockStore, gcPc, gcTodo,
                   gcKey, gcInterrupt, calls, hist>>
    /\ PoolFrame

GetSize(p) ==
    /\ pc[p] = "idle"
    /\ calls < MaxCalls
    /\ calls' = calls + 1
    /\ \E k \in Keys, authorized \in BOOLEAN :
         LET req == [op |-> "GetSize", key |-> k, block |-> NoBlock,
                     flag |-> FALSE, after |-> hist[k].fresh]
         IN  IF authorized THEN Begin(p, req, "hasRef")
                           ELSE Return(p, req, "denied", NoBlock, 0)
    /\ UNCHANGED <<refCounter, cacheSet, keyLock, blockStore, gcPc, gcTodo,
                   gcKey, gcInterrupt, hist>>
    /\ PoolFrame

\* return d.readBlockSize(ctx, c)
ReadBlockSize(p) ==
    /\ pc[p] = "read"
    /\ call[p].op = "GetSize"
    /\ LET data == readBlock(call[p].key) IN
       IF data = NoBlock THEN Done(p, "notfound")
                         ELSE Return(p, call[p], "ok", NoBlock, Len(data))
    /\ UNCHANGED <<refCounter, cacheSet, keyLock, blockStore, gcPc, gcTodo,
                   gcKey, gcInterrupt, calls, hist>>
    /\ PoolFrame

----------------------------------------------------------------------------
(* dagPoolService.Remove.  refCounter.Decr(key) runs under the per-key     *)
(* lock: a count of 1 removes the entry, and the key is not put into the   *)
(* cache set; a key with no entry is reported NotFound and left as it is.  *)

\* An authorized Remove of k is issued by p and returns st (history: a Get
\* of k that is running is no longer one issued after the last Add).
Removed(p, req, st) ==
    /\ pc' = [pc EXCEPT ![p] = "idle"]
    /\ res' = Reply(req, st)
    /\ call' = [q \in Procs |->
                  IF q = p THEN NoCall
                  ELSE IF q \in InFlight(req.key)
                    THEN [call[q] EXCEPT !.after = FALSE]
                  ELSE call[q]]

\* Remove as it would be if it decremented whatever the unpin flag says.
RemoveIgnoresUnpin(p) ==
    /\ pc[p] = "idle"
    /\ calls < MaxCalls
    /\ calls' = calls + 1
    /\ \E k \in Keys, unpin \in BOOLEAN, authorized \in BOOLEAN :
         LET req == [op |-> "Remove", key |-> k, block |-> NoBlock,
                     flag |-> unpin, after |-> FALSE]
             gone == [hist[k] EXCEPT !.removed = TRUE, !.fresh = FALSE,
                                     !.phase = "off"]
         IN  IF ~authorized
               THEN /\ Return(p, req, "denied", NoBlock, 0)
                    /\ UNCHANGED <<refCounter, hist>>
               ELSE /\ keyLock[k] = Free
                    /\ IF refCounter[k] >= 1
                         THEN /\ refCounter' = [refCounter EXCEPT ![k] = @ - 1]
                              /\ hist' = [hist EXCEPT
                                            ![k] = [gone EXCEPT !.unpinOk =
                                                      IF unpin THEN @ + 1 ELSE @]]
                              /\ Removed(p, req, "ok")
                         ELSE /\ hist' = [hist EXCEPT ![k] = gone]
                              /\ Removed(p, req, "notfound")
                              /\ UNCHANGED refCounter
    /\ UNCHANGED <<cacheSet, keyLock, blockStore, gcPc, gcTodo, gcKey, gcInterrupt>>
    /\ PoolFrame

\* Remove as it would be if a key unpinned to zero were put into the cache
\* set.
RemoveToCacheSet(p) ==
    /\ pc[p] = "idle"
    /\ calls < MaxCalls
    /\ calls' = calls + 1
    /\ \E k \in Keys, unpin \in BOOLEAN, authorized \in BOOLEAN :
         LET req == [op |-> "Remove", key |-> k, block |-> NoBlock,
                     flag |-> unpin, after |-> FALSE]
             gone == [hist[k] EXCEPT !.removed = TRUE, !.fresh = FALSE,
                                     !.phase = "off"]
         IN  IF ~authorized
               THEN /\ Return(p, req, "denied", NoBlock, 0)
                    /\ UNCHANGED <<refCounter, cacheSet, hist>>
               ELSE IF ~unpin
                 THEN /\ Removed(p, req, "ok")
                      /\ hist' = [hist EXCEPT ![k] = gone]
                      /\ UNCHANGED <<refCounter, cacheSet>>
               ELSE /\ keyLock[k] = Free
                    /\ IF refCounter[k] >= 1
                         THEN /\ refCounter' = [refCounter EXCEPT ![k] = @ - 1]
                              /\ cacheSet' = IF refCounter[k] = 1
                                               THEN cacheSet \cup {k} ELSE cacheSet
                              /\ hist' = [hist EXCEPT
                                            ![k] = [gone EXCEPT
                                                      !.unpinOk = @ + 1,
                                                      !.phase =
                                                        IF hist[k].phase = "pinned"
                                                          THEN "unpinned" ELSE "off"]]
                              /\ Removed(p, req, "ok")
                         ELSE /\ hist' = [hist EXCEPT ![k] = gone]
                              /\ Removed(p, req, "notfound")
                              /\ UNCHANGED <<refCounter, cacheSet>>
    /\ UNCHANGED <<keyLock, blockStore, gcPc, gcTodo, gcKey, gcInterrupt>>
    /\ PoolFrame

\* The width of the persisted count, scaled down from 64 bits.
CountBits == 3

\* Remove as it would be if Decr decremented the count of a key with no
\* entry: the unsigned count wraps to its largest value.
RemoveWraps(p) ==
    /\ pc[p] = "idle"
    /\ calls < MaxCalls
    /\ calls' = calls + 1
    /\ \E k \in Keys, unpin \in BOOLEAN, authorized \in BOOLEAN :
         LET req == [op |-> "Remove", key |-> k, block |-> NoBlock,
                     flag |-> unpin, after |-> FALSE]
             gone == [hist[k] EXCEPT !.removed = TRUE, !.fresh = FALSE,
                                     !.phase = "off"]
         IN  IF ~authorized
               THEN /\ Return(p, req, "denied", NoBlock, 0)
                    /\ UNCHANGED <<refCounter, hist>>
               ELSE IF ~unpin
                 THEN /\ Removed(p, req, "ok")
                      /\ hist' = [hist EXCEPT ![k] = gone]
                      /\ UNCHANGED refCounter
               ELSE /\ keyLock[k] = Free
                    /\ refCounter' = [refCounter EXCEPT ![k] = (@ - 1) % (2 ^ CountBits)]
                    /\ hist' = [hist EXCEPT ![k] = [gone EXCEPT !.unpinOk = @ + 1]]
                    /\ Removed(p, req, "ok")
    /\ UNCHANGED <<cacheSet, keyLock, blockStore, gcPc, gcTodo, gcKey, gcInterrupt>>
    /\ PoolFrame

Remove(p) ==
    /\ pc[p] = "idle"
    /\ calls < MaxCalls
    /\ calls' = calls + 1
    /\ \E k \in Keys, unpin \in BOOLEAN, authorized \in BOOLEAN :
         LET req == [op |-> "Remove", key |-> k, block |-> NoBlock,
                     flag |-> unpin, after |-> FALSE]
             gone == [hist[k] EXCEPT !.removed = TRUE, !.fresh = FALSE,
                                     !.phase = "off"]
         IN  IF ~authorized
               THEN /\ Return(p, req, "denied", NoBlock, 0)
                    /\ UNCHANGED <<refCounter, hist>>
               ELSE IF ~unpin
                 THEN /\ Removed(p, req, "ok")
                      /\ hist' = [hist EXCEPT ![k] = gone]
                      /\ UNCHANGED refCounter
               ELSE /\ keyLock[k] = Free
                    /\ IF refCounter[k] >= 1
                         THEN /\ refCounter' = [refCounter EXCEPT ![k] = @ - 1]
                              /\ hist' = [hist EXCEPT
                                            ![k] = [gone EXCEPT
                                                      !.unpinOk = @ + 1,
                                                      !.phase =
                                                        IF hist[k].phase = "pinned"
                                                          THEN "unpinned" ELSE "off"]]
                              /\ Removed(p, req, "ok")
                         ELSE /\ hist' = [hist EXCEPT ![k] = gone]
                              /\ Removed(p, req, "notfound")
                              /\ UNCHANGED refCounter
    /\ UNCHANGED <<cacheSet, keyLock, blockStore, gcPc, gcTodo, gcKey, gcInterrupt>>
    /\ PoolFrame

----------------------------------------------------------------------------
(* The garbage collector (section 4.H): a cycle visits every key of the    *)
(* cache set and of the DagNode index; under the key's lock it checks      *)
(* RefCounter.Has and CacheSet.Has and, if both are false, deletes the     *)
(* block from the DagNode.  InterruptGC ends the cycle before its next key.*)

GCStart ==
    /\ gcPc = "idle"
    /\ gcPc' = "scan"
    /\ gcTodo' = {k \in Keys : blockStore[k] # NoBlock} \cup cacheSet
    /\ gcInterrupt' = FALSE
    /\ hist' = [k \in Keys |->
                  [hist[k] EXCEPT
                     !.garbage = /\ blockStore[k] # NoBlock
                                 /\ Unpinned(k)
                                 /\ \A p \in InFlight(k) : call[p].op # "Add",
                     !.phase = IF @ \in {"caching", "pinning"} THEN "off" ELSE @,
                     !.swept = FALSE]]
    /\ UNCHANGED <<refCounter, cacheSet, keyLock, blockStore, gcKey, pc, call,
                   res, calls>>
    /\ PoolFrame

GCCheck(k) ==
    /\ gcPc = "scan"
    /\ ~gcInterrupt
    /\ k \in gcTodo
    /\ keyLock[k] = Free
    /\ gcTodo' = gcTodo \ {k}
    /\ IF RefCounterHas(k) \/ CacheSetHas(k)
         THEN UNCHANGED <<keyLock, gcPc, gcKey>>
         ELSE /\ keyLock' = [keyLock EXCEPT ![k] = ByGc]
              /\ gcPc' = "delete"
              /\ gcKey' = k
    /\ UNCHANGED <<refCounter, cacheSet, blockStore, gcInterrupt, pc, call, res,
                   calls, hist>>
    /\ PoolFrame

GCDelete ==
    /\ gcPc = "delete"
    /\ blockStore' = [blockStore EXCEPT ![gcKey] = NoBlock]
    /\ keyLock' = [keyLock EXCEPT ![gcKey] = Free]
    /\ gcPc' = "scan"
    /\ gcKey' = NoKey
    /\ hist' = [hist EXCEPT ![gcKey].swept = Has(gcKey)]
    /\ UNCHANGED <<refCounter, cacheSet, gcTodo, gcInterrupt, pc, call, res,
                   calls>>
    /\ PoolFrame

GCEnd ==
    /\ gcPc = "scan"
    /\ gcTodo = {} \/ gcInterrupt
    /\ gcPc' = "idle"
    /\ gcTodo' = {}
    /\ gcInterrupt' = FALSE
    /\ UNCHANGED <<refCounter, cacheSet, keyLock, blockStore, gcKey, pc, call,
                   res, calls, hist>>
    /\ PoolFrame

(***************************************************************************)
(* One DagNode (dag/node): a block is erasure-coded into dataBlocks +      *)
(* parityBlocks shards and shard i is kept by the i-th slice node, in the  *)
(* cask that fileID selects.                                               *)
(***************************************************************************)
MaxDataBlocks == 2      \* dataBlocks ranges over 1..MaxDataBlocks
MaxParityBlocks == 1    \* parityBlocks ranges over 1..MaxParityBlocks
MaxLen == 2             \* longest block payload
MaxByte == 1            \* a byte is one of 0..MaxByte
CaskNum == 2            \* cfg.CaskNum, the number of casks of a slice node
MaxNodeOps == 3         \* DagNode calls in one behaviour

Bytes == 0..MaxByte

NodePayloads == UNION {[1..n -> Bytes] : n \in 1..MaxLen}

\* block.Cid(): the content identifier of a payload.
NodeCid(data) == <<"cid", data>>

NodeCids == {NodeCid(b) : b \in NodePayloads}

\* The payload a cid identifies.
RawData(c) == c[2]

sha256String(s) == <<"sha256", s>>

\* d.nodes, by position.
nodes == 1..(dataBlocks + parityBlocks)

RECURSIVE Sum(_)
Sum(s) == IF s = <<>> THEN 0 ELSE Head(s) + Sum(Tail(s))

\* crc32.ChecksumIEEE: a fixed function of the key's bytes.
ChecksumIEEE(key) == Sum(RawData(key[2])) + Len(RawData(key[2]))

fileID(key) == ChecksumIEEE(key) % CaskNum

\* A key-value map with one entry set, and with one entry removed.
Store(f, k, v) == [x \in (DOMAIN f) \cup {k} |-> IF x = k THEN v ELSE f[x]]

Drop(f, k) == [x \in (DOMAIN f) \ {k} |-> f[x]]

NoMap == [x \in {} |-> 0]

NoNodeReply == [op |-> "none", cid |-> NodeCid(<<>>), st |-> "none", data |-> <<>>,
                size |-> 0, has |-> FALSE, down |-> {}, clean |-> FALSE]

NodeInit(k, m) ==
    /\ dataBlocks = k
    /\ parityBlocks = m
    /\ db = NoMap
    /\ caskMap = [i \in 1..(k + m) |-> {}]
    /\ casks = [i \in 1..(k + m) |-> NoMap]
    /\ nodeRes = NoNodeReply
    /\ nodeOps = 0
    /\ stored = {}

----------------------------------------------------------------------------
(* The erasure codec (section 4.B of the specification): the data is       *)
(* zero-padded to a multiple of k and cut into k data shards, followed by  *)
(* m parity shards, each a fixed linear combination of the data shards.    *)

Zeros(n) == [i \in 1..n |-> 0]

ShardLen(size, k) == (size + k - 1) \div k

Padded(data, k) == data \o Zeros(ShardLen(Len(data), k) * k - Len(data))

RECURSIVE Pow(_, _)
Pow(j, e) == IF e = 0 THEN 1 ELSE j * Pow(j, e - 1)

RECURSIVE ParityAt(_, _, _, _)
ParityAt(ds, j, x, i) ==
    IF i = 0 THEN 0
    ELSE (Pow(j, i - 1) * ds[i][x] + ParityAt(ds, j, x, i - 1)) % (MaxByte + 1)

EncodeData(data, k, m) ==
    LET len == ShardLen(Len(data), k)
        p == Padded(data, k)
        ds == [i \in 1..k |-> SubSeq(p, (i - 1) * len + 1, i * len)]
    IN  [i \in 1..(k + m) |->
            IF i <= k THEN ds[i] ELSE [x \in 1..len |-> ParityAt(ds, i - k, x, k)]]

\* Reconstruction fills in missing shards only; Get hands it every shard.
DecodeDataBlocks(shards) == shards

RECURSIVE Join(_)
Join(shards) == IF shards = <<>> THEN <<>> ELSE Head(shards) \o Join(Tail(shards))

----------------------------------------------------------------------------
(* The DagNode's operations.  `down` is the set of slice nodes whose cask  *)
(* answers a read with an error during the call.                           *)

NodeReply(op, c, st) == [NoNodeReply EXCEPT !.op = op, !.cid = c, !.st = st]

\* A slice node cannot serve the key: no cask, a failing read, or no entry.
Unserved(i, key, down) ==
    \/ fileID(key) \notin caskMap[i]
    \/ i \in down
    \/ key \notin DOMAIN casks[i]

\* The first slice node, in the order of d.nodes, that cannot serve the key.
FirstUnserved(key, down) ==
    CHOOSE i \in nodes : Unserved(i, key, down)
                         /\ \A j \in nodes : Unserved(j, key, down) => i <= j

\* The error of the loop over d.nodes at slice node i.
LoopError(i, key, down) ==
    IF fileID(key) \notin caskMap[i] THEN "notfound"
    ELSE IF i \in down THEN "err"
    ELSE "notfound"

\* blocks.NewBlockWithCid: the library hashes the data and compares it with
\* the cid only when its debug flag (util.Debug, false unless the program sets
\* it) is on; otherwise it wraps the data as it is.
NewBlockWithCid(data, c, debug) ==
    IF debug /\ NodeCid(data) # c THEN "hashmismatch" ELSE "ok"

NodeReturn(r) ==
    /\ nodeRes' = r
    /\ nodeOps' = nodeOps + 1

(* DagNode.Put.  dbErr: db.Put fails.  failAt: the slice node at which the *)
(* loop stops with an error (0: none); onCreate: the error is the cask's   *)
(* creation, else it is cask.Put.                                          *)
DagNodePut(b, dbErr, failAt, onCreate) ==
    LET c == NodeCid(b)
        keyCode == sha256String(c)
        id == fileID(keyCode)
        shards == EncodeData(b, dataBlocks, parityBlocks)
        clean == \A i \in nodes : keyCode \notin DOMAIN casks[i]
        reached(i) == failAt = 0 \/ i < failAt \/ (i = failAt /\ ~onCreate)
        written(i) == failAt = 0 \/ i < failAt
        reply(st) == [NodeReply("Put", c, st) EXCEPT !.clean = clean]
    IN  /\ nodeOps < MaxNodeOps
        /\ failAt \in {0} \cup nodes
        /\ dbErr => failAt = 0
        /\ onCreate => (failAt # 0 /\ id \notin caskMap[failAt])
        /\ IF dbErr
           THEN /\ NodeReturn(reply("err"))
                /\ UNCHANGED <<db, caskMap, casks, stored>>
           ELSE /\ db' = Store(db, c, Len(b))
                /\ caskMap' = [i \in nodes |->
                                 IF reached(i) THEN caskMap[i] \cup {id} ELSE caskMap[i]]
                /\ casks' = [i \in nodes |->
                               IF written(i) THEN Store(casks[i], keyCode, shards[i])
                               ELSE casks[i]]
                /\ stored' = IF failAt = 0 THEN stored \cup {c} ELSE stored
                /\ NodeReturn(reply(IF failAt = 0 THEN "ok" ELSE "err"))
        /\ UNCHANGED <<dataBlocks, parityBlocks>>
        /\ NodeFrame

\* DagNode.Get without the cut of the joined shards to the stored size.
GetBlockUntrimmed(c, down, debug) ==
    LET keyCode == sha256String(c)
        merged == [i \in nodes |-> casks[i][keyCode]]
        data == Join(DecodeDataBlocks(merged))
    IN  IF c \notin DOMAIN db THEN NodeReply("Get", c, "notfound")
        ELSE IF \E i \in nodes : Unserved(i, keyCode, down)
        THEN NodeReply("Get", c, LoopError(FirstUnserved(keyCode, down), keyCode, down))
        ELSE IF NewBlockWithCid(data, c, debug) = "ok"
        THEN [NodeReply("Get", c, "ok") EXCEPT !.data = data]
        ELSE NodeReply("Get", c, "hashmismatch")

\* What DagNode.Get returns for cid c.
GetBlock(c, down, debug) ==
    LET keyCode == sha256String(c)
        merged == [i \in nodes |-> casks[i][keyCode]]
        data == SubSeq(Join(DecodeDataBlocks(merged)), 1, db[c])
    IN  IF c \notin DOMAIN db THEN NodeReply("Get", c, "notfound")
        ELSE IF \E i \in nodes : Unserved(i, keyCode, down)
        THEN NodeReply("Get", c, LoopError(FirstUnserved(keyCode, down), keyCode, down))
        ELSE IF NewBlockWithCid(data, c, debug) = "ok"
        THEN [NodeReply("Get", c, "ok") EXCEPT !.data = data]
        ELSE NodeReply("Get", c, "hashmismatch")

DagNodeGet(c, down, debug) ==
    /\ nodeOps < MaxNodeOps
    /\ down \subseteq nodes
    /\ NodeReturn([GetBlock(c, down, debug) EXCEPT !.down = down])
    /\ UNCHANGED <<dataBlocks, parityBlocks, db, caskMap, casks, stored>>
    /\ NodeFrame

RECURSIVE SumSizes(_, _)
SumSizes(keyCode, i) ==
    IF i = 0 THEN 0 ELSE Len(casks[i][keyCode]) + SumSizes(keyCode, i - 1)

\* What DagNode.GetSize returns for cid c.
SizeOf(c, down) ==
    LET keyCode == sha256String(c)
        first == FirstUnserved(keyCode, down)
    IN  IF \E i \in nodes : Unserved(i, keyCode, down)
        THEN [NodeReply("GetSize", c, LoopError(first, keyCode, down)) EXCEPT
                 !.size = IF fileID(keyCode) \notin caskMap[first] THEN -1 ELSE 0]
        ELSE [NodeReply("GetSize", c, "ok") EXCEPT
                 !.size = SumSizes(keyCode, dataBlocks + parityBlocks)]

DagNodeGetSize(c, down) ==
    /\ nodeOps < MaxNodeOps
    /\ down \subseteq nodes
    /\ NodeReturn([SizeOf(c, down) EXCEPT !.down = down])
    /\ UNCHANGED <<dataBlocks, parityBlocks, db, caskMap, casks, stored>>
    /\ NodeFrame

DagNodeHas(c, down) ==
    LET size == SizeOf(c, down)
        reply == IF size.st = "ok" THEN [NodeReply("Has", c, "ok") EXCEPT !.has = TRUE]
                 ELSE IF size.st = "notfound" THEN NodeReply("Has", c, "ok")
                 ELSE NodeReply("Has", c, size.st)
    IN  /\ nodeOps < MaxNodeOps
        /\ down \subseteq nodes
        /\ NodeReturn([reply EXCEPT !.down = down])
        /\ UNCHANGED <<dataBlocks, parityBlocks, db, caskMap, casks, stored>>
        /\ NodeFrame

(* DagNode.DeleteBlock.  failAt: the slice node whose cask.Delete fails    *)
(* (0: none).  The loop ends, returning nil, at the first slice node that  *)
(* has no cask for the key.                                                *)
DagNodeDeleteBlock(c, failAt) ==
    LET keyCode == sha256String(c)
        id == fileID(keyCode)
        stops(i) == id \notin caskMap[i] \/ i = failAt
        deleted(i) == \A j \in nodes : j <= i => ~stops(j)
    IN  /\ nodeOps < MaxNodeOps
        /\ failAt \in {0} \cup nodes
        /\ \A j \in nodes : j <= failAt => id \in caskMap[j]
        /\ casks' = [i \in nodes |-> IF deleted(i) THEN Drop(casks[i], keyCode)
                                     ELSE casks[i]]
        /\ stored' = IF \E i \in nodes : deleted(i) THEN stored \ {c} ELSE stored
        /\ NodeReturn(NodeReply("DeleteBlock", c, IF failAt # 0 THEN "err" ELSE "ok"))
        /\ UNCHANGED <<dataBlocks, parityBlocks, db, caskMap>>
        /\ NodeFrame

\* A byte other than b.
Flipped(b) == (b + 1) % (MaxByte + 1)

\* The shard of cid c kept by slice node i is damaged where it is kept: its
\* first byte changes, and cask.Read goes on returning it.
CorruptShard(i, c) ==
    LET keyCode == sha256String(c) IN
    /\ nodeOps < MaxNodeOps
    /\ i \in nodes
    /\ keyCode \in DOMAIN casks[i]
    /\ casks[i][keyCode] # <<>>
    /\ casks' = [casks EXCEPT ![i] =
                    Store(@, keyCode, [casks[i][keyCode] EXCEPT ![1] = Flipped(@)])]
    /\ nodeOps' = nodeOps + 1
    /\ UNCHANGED <<dataBlocks, parityBlocks, db, caskMap, nodeRes, stored>>
    /\ NodeFrame

(***************************************************************************)
(* The slot table and the slot migration engine (sections 4.D and 4.F of   *)
(* the specification): the service routes a key to the owner of its slot;  *)
(* a migration moves a slot from its owner to another DagNode through the  *)
(* journal states PREPARING, COPYING, SWITCHING, DONE.                     *)
(***************************************************************************)
NDagNodes == 2       \* DagNodes that can be in the cluster
ClusterSlots == 2    \* slots of the table (slotsmgr.ClusterSlots)
NMigKeys == 3        \* keys the clients use
MaxMigOps == 3       \* client and admin calls in one behaviour
MaxCrashes == 1      \* crashes in one behaviour
MaxMigrations == 2   \* migrations started in one behaviour

DagNodeIds == 1..NDagNodes
Slots == 0..(ClusterSlots - 1)
MigKeys == 1..NMigKeys

\* A nil *dagnode.DagNode.
NoNode == 0
NoEntry == [state |-> "none", from |-> NoNode, to |-> NoNode]
NoGet == [key |-> 0, node |-> NoNode]
\* The reply of an admin call: the call, the DagNode it names and the
\* outcome.
NoAdminReply == [op |-> "none", node |-> NoNode, st |-> "none"]

AdminReply(op, n, st) == [op |-> op, node |-> n, st |-> st]

NoMigReply == [key |-> 0, found |-> FALSE, wasLive |-> FALSE, raced |-> FALSE]

\* keyHashSlot: the slot of a key, a fixed function of the key.
SlotOf(k) == k % ClusterSlots

\* The keys of slot s that DagNode n stores.
KeysOn(n, s) == {k \in held[n] : SlotOf(k) = s}

\* Slot s is being migrated: its journal entry exists and the table routes
\* it to the entry's target.
Migrating(s) == slotMigrateRepo[s].state \in {"COPYING", "SWITCHING", "DONE"}

MigInit(registered, owners) ==
    /\ dagNodesMap = registered
    /\ slots = owners
    /\ importingSlotsFrom = [s \in Slots |-> NoNode]
    /\ slotMigrateRepo = [s \in Slots |-> NoEntry]
    /\ held = [n \in DagNodeIds |-> {}]
    /\ migTodo = {}
    /\ up = TRUE
    /\ getting = NoGet
    /\ migRes = NoMigReply
    /\ live = {}
    /\ during = {}
    /\ migCount = [ops |-> 0, crashes |-> 0, migrations |-> 0, replayed |-> FALSE,
                   delBoth |-> FALSE]
    /\ adminRes = NoAdminReply

\* A client or admin call can be made.
MigCall ==
    /\ up
    /\ getting = NoGet
    /\ migCount.ops < MaxMigOps

\* The counters of a call other than a delete.
Counted == migCount' = [migCount EXCEPT !.ops = @ + 1]

----------------------------------------------------------------------------
(* Client traffic, routed by the slot table. *)

\* RoutePut as it would be if a write went to the previous owner while the
\* slot has one.
RoutePutToFrom(k) ==
    LET s == SlotOf(k)
        n == IF importingSlotsFrom[s] # NoNode THEN importingSlotsFrom[s] ELSE slots[s]
    IN  /\ MigCall
        /\ Counted
        /\ held' = [held EXCEPT ![n] = @ \cup {k}]
        /\ live' = live \cup {k}
        /\ during' = IF Migrating(s) THEN during \cup {k} ELSE during
        /\ migRes' = NoMigReply
        /\ UNCHANGED <<slots, importingSlotsFrom, dagNodesMap, slotMigrateRepo,
                       migTodo, up, getting>>
        /\ adminRes' = NoAdminReply
        /\ MigFrame

\* A write goes to the owner of the key's slot (during a migration: to).
RoutePut(k) ==
    /\ MigCall
    /\ Counted
    /\ held' = [held EXCEPT ![slots[SlotOf(k)]] = @ \cup {k}]
    /\ live' = live \cup {k}
    /\ during' = IF Migrating(SlotOf(k)) THEN during \cup {k} ELSE during
    /\ migRes' = NoMigReply
    /\ UNCHANGED <<slots, importingSlotsFrom, dagNodesMap, slotMigrateRepo,
                   migTodo, up, getting>>
    /\ adminRes' = NoAdminReply
    /\ MigFrame

\* RouteDelete as it would be if a delete went to the owner only.
RouteDeleteOwnerOnly(k) ==
    /\ MigCall
    /\ migCount' = [migCount EXCEPT
                       !.ops = @ + 1,
                       !.delBoth = @ \/ (/\ importingSlotsFrom[SlotOf(k)] # NoNode
                                         /\ k \in held[importingSlotsFrom[SlotOf(k)]])]
    /\ held' = [held EXCEPT ![slots[SlotOf(k)]] = @ \ {k}]
    /\ live' = live \ {k}
    /\ during' = during \ {k}
    /\ migRes' = NoMigReply
    /\ UNCHANGED <<slots, importingSlotsFrom, dagNodesMap, slotMigrateRepo,
                   migTodo, up, getting>>
    /\ adminRes' = NoAdminReply
    /\ MigFrame

\* A delete goes to the owner and, during a migration, to the previous owner.
RouteDelete(k) ==
    /\ MigCall
    /\ migCount' = [migCount EXCEPT
                       !.ops = @ + 1,
                       !.delBoth = @ \/ (/\ importingSlotsFrom[SlotOf(k)] # NoNode
                                         /\ k \in held[importingSlotsFrom[SlotOf(k)]])]
    /\ held' = [n \in DagNodeIds |->
                  IF n \in {slots[SlotOf(k)], importingSlotsFrom[SlotOf(k)]}
                    THEN held[n] \ {k} ELSE held[n]]
    /\ live' = live \ {k}
    /\ during' = during \ {k}
    /\ migRes' = NoMigReply
    /\ UNCHANGED <<slots, importingSlotsFrom, dagNodesMap, slotMigrateRepo,
                   migTodo, up, getting>>
    /\ adminRes' = NoAdminReply
    /\ MigFrame

\* RouteGet as it would be if a read asked the owner only.
RouteGetOwnerOnly(k) ==
    /\ MigCall
    /\ Counted
    /\ migRes' = [key |-> k, found |-> k \in held[slots[SlotOf(k)]],
                  wasLive |-> k \in live, raced |-> FALSE]
    /\ UNCHANGED <<slots, importingSlotsFrom, dagNodesMap, slotMigrateRepo, held,
                   migTodo, up, getting, live, during>>
    /\ adminRes' = NoAdminReply
    /\ MigFrame

\* A read asks the owner first; on NotFound it goes on to the previous owner
\* if the slot has one.
RouteGet(k) ==
    LET s == SlotOf(k) IN
    /\ MigCall
    /\ Counted
    /\ IF k \in held[slots[s]]
         THEN /\ migRes' = [key |-> k, found |-> TRUE, wasLive |-> k \in live,
                            raced |-> FALSE]
              /\ UNCHANGED getting
         ELSE IF importingSlotsFrom[s] = NoNode
           THEN /\ migRes' = [key |-> k, found |-> FALSE, wasLive |-> k \in live,
                              raced |-> FALSE]
                /\ UNCHANGED getting
           ELSE /\ getting' = [key |-> k, node |-> importingSlotsFrom[s]]
                /\ migRes' = [key |-> k, found |-> FALSE, wasLive |-> k \in live,
                              raced |-> FALSE]
    /\ UNCHANGED <<slots, importingSlotsFrom, dagNodesMap, slotMigrateRepo, held,
                   migTodo, up, live, during>>
    /\ adminRes' = NoAdminReply
    /\ MigFrame

\* The second read of a Get, from the previous owner.
RouteGetFrom ==
    /\ up
    /\ getting # NoGet
    /\ migRes' = [migRes EXCEPT !.found = getting.key \in held[getting.node]]
    /\ getting' = NoGet
    /\ UNCHANGED <<slots, importingSlotsFrom, dagNodesMap, slotMigrateRepo, held,
                   migTodo, up, live, during, migCount>>
    /\ UNCHANGED adminRes
    /\ MigFrame

----------------------------------------------------------------------------
(* Admin calls. *)

AddDagNode(n) ==
    /\ MigCall
    /\ Counted
    /\ n \notin dagNodesMap
    /\ dagNodesMap' = dagNodesMap \cup {n}
    /\ adminRes' = AdminReply("AddDagNode", n, "ok")
    /\ UNCHANGED <<slots, importingSlotsFrom, slotMigrateRepo, held, migTodo, up,
                   getting, migRes, live, during>>
    /\ MigFrame

\* RemoveDagNode as it would be if any DagNode could be removed.
RemoveDagNodeUnchecked(n) ==
    /\ MigCall
    /\ Counted
    /\ n \in dagNodesMap
    /\ dagNodesMap' = dagNodesMap \ {n}
    /\ adminRes' = AdminReply("RemoveDagNode", n, "ok")
    /\ UNCHANGED <<slots, importingSlotsFrom, slotMigrateRepo, held, migTodo, up,
                   getting, migRes, live, during>>
    /\ MigFrame

\* A DagNode is removed only if it owns no slot and no migration uses it;
\* otherwise the call is refused with Conflict and nothing changes.
RemoveDagNode(n) ==
    /\ MigCall
    /\ Counted
    /\ n \in dagNodesMap
    /\ IF \A s \in Slots : /\ slots[s] # n
                           /\ importingSlotsFrom[s] # n
                           /\ slotMigrateRepo[s].from # n
                           /\ slotMigrateRepo[s].to # n
         THEN /\ dagNodesMap' = dagNodesMap \ {n}
              /\ adminRes' = AdminReply("RemoveDagNode", n, "ok")
         ELSE /\ adminRes' = AdminReply("RemoveDagNode", n, "Conflict")
              /\ UNCHANGED dagNodesMap
    /\ UNCHANGED <<slots, importingSlotsFrom, slotMigrateRepo, held, migTodo, up,
                   getting, migRes, live, during>>
    /\ MigFrame

\* MigrateSlots: the journal entry of slot s is persisted in state PREPARING.
MigrateSlots(s, to) ==
    /\ up
    /\ migCount.migrations < MaxMigrations
    /\ \A t \in Slots : slotMigrateRepo[t] = NoEntry
    /\ to \in dagNodesMap
    /\ to # slots[s]
    /\ slotMigrateRepo' = [slotMigrateRepo EXCEPT
                             ![s] = [state |-> "PREPARING", from |-> slots[s], to |-> to]]
    /\ during' = {k \in during : SlotOf(k) # s}
    /\ migCount' = [migCount EXCEPT !.migrations = @ + 1, !.delBoth = FALSE]
    /\ UNCHANGED <<slots, importingSlotsFrom, dagNodesMap, held, migTodo, up,
                   getting, migRes, live>>
    /\ UNCHANGED adminRes
    /\ MigFrame

----------------------------------------------------------------------------
(* The migration engine: one step per journal state.  The engine keeps in  *)
(* memory the keys it has still to copy (COPYING) or to delete (DONE).     *)

Entry(s, state) == [slotMigrateRepo[s] EXCEPT !.state = state]

\* PREPARING: the table routes the slot to `to` and remembers `from`; the
\* keys of the slot on `from` are enumerated for the copy.
Preparing(s) ==
    LET e == slotMigrateRepo[s] IN
    /\ up
    /\ e.state = "PREPARING"
    /\ slots' = [slots EXCEPT ![s] = e.to]
    /\ importingSlotsFrom' = [importingSlotsFrom EXCEPT ![s] = e.from]
    /\ slotMigrateRepo' = [slotMigrateRepo EXCEPT ![s] = Entry(s, "COPYING")]
    /\ migTodo' = KeysOn(e.from, s)
    /\ UNCHANGED <<dagNodesMap, held, up, getting, migRes, live, during, migCount>>
    /\ UNCHANGED adminRes
    /\ MigFrame

\* COPYING: a key still on `from` and not yet on `to` is put on `to`.
Copying(s, k) ==
    LET e == slotMigrateRepo[s] IN
    /\ up
    /\ e.state = "COPYING"
    /\ k \in migTodo
    /\ held' = IF k \in held[e.from] /\ k \notin held[e.to]
                 THEN [held EXCEPT ![e.to] = @ \cup {k}]
                 ELSE held
    /\ migTodo' = migTodo \ {k}
    /\ UNCHANGED <<slots, importingSlotsFrom, dagNodesMap, slotMigrateRepo, up,
                   getting, migRes, live, during, migCount>>
    /\ UNCHANGED adminRes
    /\ MigFrame

\* Copied as it would be if the journal went to SWITCHING before the copy
\* was complete.
CopiedEarly(s) ==
    /\ up
    /\ slotMigrateRepo[s].state = "COPYING"
    /\ slotMigrateRepo' = [slotMigrateRepo EXCEPT ![s] = Entry(s, "SWITCHING")]
    /\ migTodo' = {}
    /\ UNCHANGED <<slots, importingSlotsFrom, dagNodesMap, held, up,
                   getting, migRes, live, during, migCount>>
    /\ UNCHANGED adminRes
    /\ MigFrame

\* The copy is complete: the journal goes to SWITCHING.
Copied(s) ==
    /\ up
    /\ slotMigrateRepo[s].state = "COPYING"
    /\ migTodo = {}
    /\ slotMigrateRepo' = [slotMigrateRepo EXCEPT ![s] = Entry(s, "SWITCHING")]
    /\ UNCHANGED <<slots, importingSlotsFrom, dagNodesMap, held, migTodo, up,
                   getting, migRes, live, during, migCount>>
    /\ UNCHANGED adminRes
    /\ MigFrame

\* SWITCHING: the table update that clears importing_from is published; the
\* migrated keys on `from` are enumerated for deletion.
Switching(s) ==
    LET e == slotMigrateRepo[s] IN
    /\ up
    /\ e.state = "SWITCHING"
    /\ importingSlotsFrom' = [importingSlotsFrom EXCEPT ![s] = NoNode]
    /\ slotMigrateRepo' = [slotMigrateRepo EXCEPT ![s] = Entry(s, "DONE")]
    /\ migTodo' = KeysOn(e.from, s)
    /\ UNCHANGED <<slots, dagNodesMap, held, up, getting, migRes, live, during,
                   migCount>>
    /\ UNCHANGED adminRes
    /\ MigFrame

\* DONE: a migrated key is deleted on `from` (history: a Get that is about
\* to read that key from `from` has been overtaken).
Deleting(s, k) ==
    LET e == slotMigrateRepo[s] IN
    /\ up
    /\ e.state = "DONE"
    /\ k \in migTodo
    /\ held' = [held EXCEPT ![e.from] = @ \ {k}]
    /\ migTodo' = migTodo \ {k}
    /\ migRes' = IF getting = [key |-> k, node |-> e.from]
                   THEN [migRes EXCEPT !.raced = TRUE] ELSE migRes
    /\ UNCHANGED <<slots, importingSlotsFrom, dagNodesMap, slotMigrateRepo, up,
                   getting, live, during, migCount>>
    /\ UNCHANGED adminRes
    /\ MigFrame

\* DONE, every key deleted: the journal entry is dropped.
Dropped(s) ==
    /\ up
    /\ slotMigrateRepo[s].state = "DONE"
    /\ migTodo = {}
    /\ slotMigrateRepo' = [slotMigrateRepo EXCEPT ![s] = NoEntry]
    /\ UNCHANGED <<slots, importingSlotsFrom, dagNodesMap, held, migTodo, up,
                   getting, migRes, live, during, migCount>>
    /\ UNCHANGED adminRes
    /\ MigFrame

\* The process dies: what it kept in memory is lost (a Get under way never
\* returns), the tables, the journal and the DagNodes' contents stay.
Crash ==
    /\ up
    /\ migCount.crashes < MaxCrashes
    /\ up' = FALSE
    /\ migTodo' = {}
    /\ getting' = NoGet
    /\ migRes' = NoMigReply
    /\ migCount' = [migCount EXCEPT !.crashes = @ + 1]
    /\ UNCHANGED <<slots, importingSlotsFrom, dagNodesMap, slotMigrateRepo, held,
                   live, during>>
    /\ UNCHANGED adminRes
    /\ MigFrame

\* Replay as it would be if a restart took the copy of a slot for complete.
ReplayNothing == {}

\* The keys to go through again when the journal is replayed: COPYING starts
\* from scratch, DONE resumes the deletions.
Replay ==
    UNION {IF slotMigrateRepo[s].state \in {"COPYING", "DONE"}
             THEN KeysOn(slotMigrateRepo[s].from, s) ELSE {} : s \in Slots}

\* The process restarts and replays the journal.
Restart ==
    /\ ~up
    /\ up' = TRUE
    /\ migTodo' = Replay
    /\ migCount' = [migCount EXCEPT
                       !.replayed = @ \/ \E s \in Slots : slotMigrateRepo[s] # NoEntry]
    /\ UNCHANGED <<slots, importingSlotsFrom, dagNodesMap, slotMigrateRepo, held,
                   getting, migRes, live, during>>
    /\ UNCHANGED adminRes
    /\ MigFrame

\* The cluster of the other specifications: one DagNode owning every slot.
MigIdle == MigInit({1}, [s \in Slots |-> 1])

----------------------------------------------------------------------------
(* One cask of a DataNode store: an append-only value log, a hint log and  *)
(* an in-memory index.                                                      *)

NStoreKeys == 2
MaxValueLen == 2
MaxStoreOps == 3
MaxStoreCrashes == 2
MaxDamaged == 1

StoreKeys == 1..NStoreKeys

\* The values a Put stores: byte strings of one to MaxValueLen bytes.
StoreValues == UNION {[1..n -> {7}] : n \in 1..MaxValueLen}

\* A tombstone carries no value.
Tombstone == <<>>

\* A vlog record [crc32][key_len][value_len][key][value]; crcOk says whether
\* the record is complete and its CRC matches key and value.
VlogRecord(k, v) == [key |-> k, value |-> v, crcOk |-> TRUE]

\* The hint record [key_len][value_len][value_pos][key] of the vlog record
\* at position pos; whole says whether the record is complete.
HintRecord(rec, pos) ==
    [key |-> rec.key, value_len |-> Len(rec.value), value_pos |-> pos, whole |-> TRUE]

NoPos == [value_pos |-> 0, value_len |-> 0]

NoTomb == [pos |-> 0, kept |-> FALSE]

\* The replies of Get.
StoreReply(st, v) == [st |-> st, value |-> v]

\* Indexed as it would be if a tombstone were indexed like any other record.
IndexedTombstoneKept(idx, k, pos, len) ==
    [idx EXCEPT ![k] = [value_pos |-> pos, value_len |-> len]]

\* The index after a record of length len at position pos for key k: a
\* tombstone removes the entry.
Indexed(idx, k, pos, len) ==
    [idx EXCEPT ![k] = IF len = 0 THEN NoPos ELSE [value_pos |-> pos, value_len |-> len]]

\* The index built from the vlog records at positions from..to, on top of idx.
RECURSIVE ScanVlog(_, _, _, _)
ScanVlog(idx, log, from, to) ==
    IF from > to THEN idx
    ELSE ScanVlog(Indexed(idx, log[from].key, from, Len(log[from].value)),
                  log, from + 1, to)

\* The index built by replaying the first n hint records.
RECURSIVE ReplayHints(_, _)
ReplayHints(h, n) ==
    IF n = 0 THEN [k \in StoreKeys |-> NoPos]
    ELSE Indexed(ReplayHints(h, n - 1), h[n].key, h[n].value_pos, h[n].value_len)

\* The index a log determines.
IndexOf(log) == ScanVlog([k \in StoreKeys |-> NoPos], log, 1, Len(log))

\* The number of records before the first one whose CRC does not match.
GoodLen(log) ==
    IF \A i \in 1..Len(log) : log[i].crcOk THEN Len(log)
    ELSE (CHOOSE i \in 1..Len(log) :
            /\ ~log[i].crcOk
            /\ \A j \in 1..(i - 1) : log[j].crcOk) - 1

\* The number of leading hint records that are complete and point into the
\* first n records of the vlog.
GoodHints(h, n) ==
    IF \A i \in 1..Len(h) : h[i].whole /\ h[i].value_pos <= n THEN Len(h)
    ELSE (CHOOSE i \in 1..Len(h) :
            /\ ~(h[i].whole /\ h[i].value_pos <= n)
            /\ \A j \in 1..(i - 1) : h[j].whole /\ h[j].value_pos <= n) - 1

\* Get: the index names the record; a record whose CRC does not match is
\* reported and not repaired.
ReadKey(log, idx, k) ==
    IF idx[k] = NoPos THEN StoreReply("NotFound", Tombstone)
    ELSE IF idx[k].value_pos > Len(log) \/ ~log[idx[k].value_pos].crcOk
              \/ log[idx[k].value_pos].key # k
              \/ Len(log[idx[k].value_pos].value) # idx[k].value_len
           THEN StoreReply("Corrupt", Tombstone)
           ELSE StoreReply("ok", log[idx[k].value_pos].value)

\* Size: the length the index records for the key.
SizeKey(idx, k) ==
    IF idx[k] = NoPos THEN [st |-> "NotFound", size |-> 0]
    ELSE [st |-> "ok", size |-> idx[k].value_len]

StoreInit ==
    /\ vlog = <<>>
    /\ hint = <<>>
    /\ index = [k \in StoreKeys |-> NoPos]
    /\ storePc = "idle"
    /\ storeUp = TRUE
    /\ applied = 0
    /\ storeRes = [key |-> 0, reply |-> StoreReply("NotFound", Tombstone)]
    /\ storeCount = [ops |-> 0, crashes |-> 0, damaged |-> 0]
    /\ tombAt = [k \in StoreKeys |-> NoTomb]

\* Put appends its vlog record ...
StorePut(k, v) ==
    /\ storeUp
    /\ storePc = "idle"
    /\ storeCount.ops < MaxStoreOps
    /\ vlog' = Append(vlog, VlogRecord(k, v))
    /\ storePc' = "vlog"
    /\ storeCount' = [storeCount EXCEPT !.ops = @ + 1]
    /\ tombAt' = [tombAt EXCEPT ![k] = NoTomb]
    /\ UNCHANGED <<hint, index, storeUp, applied, storeRes>>
    /\ StoreFrame

\* Delete appends a tombstone record ...
StoreDelete(k) ==
    /\ storeUp
    /\ storePc = "idle"
    /\ storeCount.ops < MaxStoreOps
    /\ vlog' = Append(vlog, VlogRecord(k, Tombstone))
    /\ storePc' = "vlog"
    /\ storeCount' = [storeCount EXCEPT !.ops = @ + 1]
    /\ UNCHANGED <<hint, index, storeUp, applied, storeRes, tombAt>>
    /\ StoreFrame

\* ... then the matching hint record ...
AppendHint ==
    /\ storeUp
    /\ storePc = "vlog"
    /\ hint' = Append(hint, HintRecord(vlog[Len(vlog)], Len(vlog)))
    /\ storePc' = "hint"
    /\ UNCHANGED <<vlog, index, storeUp, applied, storeRes, storeCount, tombAt>>
    /\ StoreFrame

\* ... then updates the in-memory index.
UpdateIndex ==
    /\ storeUp
    /\ storePc = "hint"
    /\ index' = Indexed(index, vlog[Len(vlog)].key, Len(vlog), Len(vlog[Len(vlog)].value))
    /\ applied' = Len(vlog)
    /\ storePc' = "idle"
    /\ tombAt' = IF vlog[Len(vlog)].value = Tombstone
                   THEN [tombAt EXCEPT ![vlog[Len(vlog)].key] =
                                         [pos |-> Len(vlog), kept |-> TRUE]]
                   ELSE tombAt
    /\ UNCHANGED <<vlog, hint, storeUp, storeRes, storeCount>>
    /\ StoreFrame

StoreGet(k) ==
    /\ storeUp
    /\ storeRes' = [key |-> k, reply |-> ReadKey(vlog, index, k)]
    /\ UNCHANGED <<vlog, hint, index, storePc, storeUp, applied, storeCount, tombAt>>
    /\ StoreFrame

\* The process dies.  With torn, the append it was in the middle of is left
\* partial: the vlog record if the hint record was not started, else the
\* hint record.
StoreCrash(torn) ==
    /\ storeUp
    /\ storeCount.crashes < MaxStoreCrashes
    /\ storeUp' = FALSE
    /\ vlog' = IF torn /\ storePc = "vlog"
                 THEN [vlog EXCEPT ![Len(vlog)].crcOk = FALSE] ELSE vlog
    /\ hint' = IF torn /\ storePc = "hint"
                 THEN [hint EXCEPT ![Len(hint)].whole = FALSE] ELSE hint
    /\ storeRes' = [key |-> 0, reply |-> StoreReply("NotFound", Tombstone)]
    /\ storeCount' = [storeCount EXCEPT !.crashes = @ + 1]
    /\ UNCHANGED <<index, storePc, applied, tombAt>>
    /\ StoreFrame

\* A record of the vlog is damaged on disk while the store is closed.
Damage(i) ==
    /\ ~storeUp
    /\ storeCount.damaged < MaxDamaged
    /\ i \in 1..Len(vlog)
    /\ vlog[i].crcOk
    /\ vlog' = [vlog EXCEPT ![i].crcOk = FALSE]
    /\ storeCount' = [storeCount EXCEPT !.damaged = @ + 1]
    /\ UNCHANGED <<hint, index, storePc, storeUp, applied, storeRes, tombAt>>
    /\ StoreFrame

\* The hint file is lost while the store is closed.
LoseHint ==
    /\ ~storeUp
    /\ hint # <<>>
    /\ hint' = <<>>
    /\ UNCHANGED <<vlog, index, storePc, storeUp, applied, storeRes, storeCount,
                   tombAt>>
    /\ StoreFrame

\* StoreOpen as it would be if recovery replayed the hint log and left the
\* vlog as it found it.
StoreOpenHintsOnly ==
    LET h == GoodHints(hint, Len(vlog))
    IN  /\ ~storeUp
        /\ hint' = SubSeq(hint, 1, h)
        /\ index' = ReplayHints(hint, h)
        /\ applied' = h
        /\ storePc' = "idle"
        /\ storeUp' = TRUE
        /\ UNCHANGED <<vlog, storeRes, storeCount, tombAt>>
        /\ StoreFrame

\* Recovery on open: the vlog is truncated at the first record whose CRC
\* does not match; the hints that are whole and point into what is left are
\* replayed, and the records the hint log misses are taken from the vlog,
\* which also completes the hint log.
StoreOpen ==
    LET n == GoodLen(vlog)
        h == GoodHints(hint, n)
    IN  /\ ~storeUp
        /\ vlog' = SubSeq(vlog, 1, n)
        /\ hint' = [i \in 1..n |-> IF i <= h THEN hint[i] ELSE HintRecord(vlog[i], i)]
        /\ index' = ScanVlog(ReplayHints(hint, h), vlog, h + 1, n)
        /\ applied' = n
        /\ storePc' = "idle"
        /\ storeUp' = TRUE
        /\ tombAt' = [k \in StoreKeys |->
                        [tombAt[k] EXCEPT !.kept = @ /\ tombAt[k].pos <= n]]
        /\ UNCHANGED <<storeRes, storeCount>>
        /\ StoreFrame

----------------------------------------------------------------------------
(* One repo directory and the callers that open a SliceNode on it.         *)

NOpeners == 3
MaxRepoCalls == 5

Openers == 1..NOpeners
NoOpener == 0

\* What NewSliceNode returns: st is "ok" with the SliceNode, or the error.
OpenReply(st) == [st |-> st]

RepoInit ==
    /\ repoLock = NoOpener
    /\ slicePc = [o \in Openers |-> "idle"]
    /\ sliceCaskMap = [o \in Openers |-> FALSE]
    /\ sliceRes = [o \in Openers |-> OpenReply("none")]
    /\ repoCount = [calls |-> 0, raced |-> FALSE]

\* NewSliceNode up to the check of the lock: the path is checked (and the
\* directory made), then fslock.Locked says whether repo.lock is held.
NewSliceNode(o, pathOk, checkErr) ==
    /\ slicePc[o] \in {"idle", "closed"}
    /\ repoCount.calls < MaxRepoCalls
    /\ repoCount' = [repoCount EXCEPT !.calls = @ + 1]
    /\ sliceCaskMap' = [sliceCaskMap EXCEPT ![o] = FALSE]
    /\ IF ~pathOk
         THEN /\ sliceRes' = [sliceRes EXCEPT ![o] = OpenReply("ErrPath")]
              /\ slicePc' = [slicePc EXCEPT ![o] = "idle"]
         ELSE IF checkErr
           THEN /\ sliceRes' = [sliceRes EXCEPT ![o] = OpenReply("LockError")]
                /\ slicePc' = [slicePc EXCEPT ![o] = "idle"]
           ELSE IF repoLock # NoOpener
             THEN /\ sliceRes' = [sliceRes EXCEPT ![o] = OpenReply("ErrRepoLocked")]
                  /\ slicePc' = [slicePc EXCEPT ![o] = "idle"]
             ELSE /\ sliceRes' = [sliceRes EXCEPT ![o] = OpenReply("none")]
                  /\ slicePc' = [slicePc EXCEPT ![o] = "checked"]
    /\ UNCHANGED repoLock
    /\ RepoFrame

\* fslock.Lock as it would be if it took repo.lock whoever holds it.
LockRepoUnchecked(o, lockErr) ==
    /\ slicePc[o] = "checked"
    /\ IF lockErr
         THEN /\ sliceRes' = [sliceRes EXCEPT ![o] = OpenReply("LockError")]
              /\ slicePc' = [slicePc EXCEPT ![o] = "idle"]
              /\ UNCHANGED repoLock
         ELSE /\ repoLock' = o
              /\ slicePc' = [slicePc EXCEPT ![o] = "locked"]
              /\ UNCHANGED sliceRes
    /\ UNCHANGED <<sliceCaskMap, repoCount>>
    /\ RepoFrame

\* ... then fslock.Lock takes repo.lock, or fails: always when another
\* caller took it since the check.
LockRepo(o, lockErr) ==
    /\ slicePc[o] = "checked"
    /\ IF lockErr \/ repoLock # NoOpener
         THEN /\ sliceRes' = [sliceRes EXCEPT ![o] = OpenReply("LockError")]
              /\ slicePc' = [slicePc EXCEPT ![o] = "idle"]
              /\ repoCount' = [repoCount EXCEPT !.raced = @ \/ (repoLock # NoOpener)]
              /\ UNCHANGED repoLock
         ELSE /\ repoLock' = o
              /\ slicePc' = [slicePc EXCEPT ![o] = "locked"]
              /\ UNCHANGED <<sliceRes, repoCount>>
    /\ UNCHANGED sliceCaskMap
    /\ RepoFrame

\* ... then buildCaskMap builds the cask map and the SliceNode is returned;
\* when it fails the error is returned with repo.lock still held.
BuildCaskMap(o, built) ==
    /\ slicePc[o] = "locked"
    /\ IF built
         THEN /\ sliceCaskMap' = [sliceCaskMap EXCEPT ![o] = TRUE]
              /\ sliceRes' = [sliceRes EXCEPT ![o] = OpenReply("ok")]
              /\ slicePc' = [slicePc EXCEPT ![o] = "open"]
         ELSE /\ sliceRes' = [sliceRes EXCEPT ![o] = OpenReply("CaskMapError")]
              /\ slicePc' = [slicePc EXCEPT ![o] = "idle"]
              /\ UNCHANGED sliceCaskMap
    /\ UNCHANGED <<repoLock, repoCount>>
    /\ RepoFrame

\* m.close: the first call closes closeChan and releases repo.lock, the
\* later ones do nothing (sync.Once).
SliceClose(o) ==
    /\ slicePc[o] \in {"open", "closed"}
    /\ repoCount.calls < MaxRepoCalls
    /\ repoCount' = [repoCount EXCEPT !.calls = @ + 1]
    /\ slicePc' = [slicePc EXCEPT ![o] = "closed"]
    /\ repoLock' = IF slicePc[o] = "open" THEN NoOpener ELSE repoLock
    /\ UNCHANGED <<sliceCaskMap, sliceRes>>
    /\ RepoFrame

----------------------------------------------------------------------------
(* One SliceNode: the goroutine started by handleCreateCask and the Put    *)
(* calls that find a cask missing and ask for it on createCaskChan.  The   *)
(* channels createCaskChan and done are unbuffered: a send and its receive *)
(* are one step.                                                           *)

NPutters == 2
MaxPutCalls == 3

Putters == 1..NPutters
NoPutter == 0

\* Cask ids: fileID is a checksum modulo cfg.CaskNum.
CaskIds == 0..(CaskNum - 1)

\* No cask held.
NoCask == 0

NoPutReq == [id |-> 0, cask |-> NoCask]

\* What the loop body of Put came to: st is "none", "ok" or "err".
PutReply(st, id, cask) == [st |-> st, id |-> id, cask |-> cask]

CaskInit ==
    /\ closeChan = FALSE
    /\ handlerPc = "select"
    /\ handlerReq = NoPutter
    /\ ids = {}
    /\ caskAdds = [id \in CaskIds |-> 0]
    /\ putPc = [p \in Putters |-> "idle"]
    /\ putReq = [p \in Putters |-> NoPutReq]
    /\ putRes = [p \in Putters |-> PutReply("none", 0, NoCask)]
    /\ putCalls = 0

\* Put, for this SliceNode: cask, has = node.caskMap.Get(id).
PutGetCask(p, id) ==
    /\ putPc[p] = "idle"
    /\ putCalls < MaxPutCalls
    /\ putCalls' = putCalls + 1
    /\ putReq' = [putReq EXCEPT ![p] = [id |-> id, cask |-> caskAdds[id]]]
    /\ putPc' = [putPc EXCEPT ![p] = IF caskAdds[id] >= 1 THEN "put" ELSE "send"]
    /\ putRes' = [putRes EXCEPT ![p] = PutReply("none", 0, NoCask)]
    /\ UNCHANGED <<closeChan, handlerPc, handlerReq, ids, caskAdds>>
    /\ CaskFrame

\* node.createCaskChan <- &createCaskRequst{id, done}, received by the
\* goroutine's select; Put goes on to wait on done.
SendCreateCask(p) ==
    /\ putPc[p] = "send"
    /\ handlerPc = "select"
    /\ handlerPc' = "handling"
    /\ handlerReq' = p
    /\ putPc' = [putPc EXCEPT ![p] = "wait"]
    /\ UNCHANGED <<closeChan, ids, caskAdds, putReq, putRes, putCalls>>
    /\ CaskFrame

\* The goroutine's answer on done, received by Put: an error ends the Put.
Answer(p, err) ==
    /\ handlerPc' = "select"
    /\ handlerReq' = NoPutter
    /\ IF err
         THEN /\ putPc' = [putPc EXCEPT ![p] = "idle"]
              /\ putRes' = [putRes EXCEPT ![p] = PutReply("err", putReq[p].id, NoCask)]
         ELSE /\ putPc' = [putPc EXCEPT ![p] = "got"]
              /\ UNCHANGED putRes

\* handleCreateCask as it would be if it did not keep the ids it has created.
handleCreateCaskAlways(opened) ==
    LET p == handlerReq
        id == putReq[p].id
    IN  /\ handlerPc = "handling"
        /\ IF ~opened
             THEN /\ Answer(p, TRUE)
                  /\ UNCHANGED <<ids, caskAdds>>
             ELSE /\ caskAdds' = [caskAdds EXCEPT ![id] = @ + 1]
                  /\ ids' = ids \cup {id}
                  /\ Answer(p, FALSE)
        /\ UNCHANGED <<closeChan, putReq, putCalls>>
        /\ CaskFrame

\* The goroutine handles the request it received: an id it has created is
\* answered ErrNone; else the vlog and hint files are opened, and if both
\* open the cask is added to the cask map and the id to ids.
handleCreateCask(opened) ==
    LET p == handlerReq
        id == putReq[p].id
    IN  /\ handlerPc = "handling"
        /\ IF id \in ids
             THEN /\ Answer(p, FALSE)
                  /\ UNCHANGED <<ids, caskAdds>>
             ELSE IF ~opened
               THEN /\ Answer(p, TRUE)
                    /\ UNCHANGED <<ids, caskAdds>>
               ELSE /\ caskAdds' = [caskAdds EXCEPT ![id] = @ + 1]
                    /\ ids' = ids \cup {id}
                    /\ Answer(p, FALSE)
        /\ UNCHANGED <<closeChan, putReq, putCalls>>
        /\ CaskFrame

\* case <-m.closeChan: the goroutine returns.
HandlerExit ==
    /\ handlerPc = "select"
    /\ closeChan
    /\ handlerPc' = "exited"
    /\ UNCHANGED <<closeChan, handlerReq, ids, caskAdds, putPc, putReq, putRes,
                   putCalls>>
    /\ CaskFrame

\* cask, _ = node.caskMap.Get(id) after ErrNone.
PutGetCreated(p) ==
    /\ putPc[p] = "got"
    /\ putReq' = [putReq EXCEPT ![p].cask = caskAdds[putReq[p].id]]
    /\ putPc' = [putPc EXCEPT ![p] = "put"]
    /\ UNCHANGED <<closeChan, handlerPc, handlerReq, ids, caskAdds, putRes,
                   putCalls>>
    /\ CaskFrame

\* err = cask.Put(keyCode, shards[i]) on the cask Put holds.
PutShard(p, written) ==
    /\ putPc[p] = "put"
    /\ putRes' = [putRes EXCEPT ![p] =
                    PutReply(IF written THEN "ok" ELSE "err", putReq[p].id, putReq[p].cask)]
    /\ putPc' = [putPc EXCEPT ![p] = "idle"]
    /\ UNCHANGED <<closeChan, handlerPc, handlerReq, ids, caskAdds, putReq,
                   putCalls>>
    /\ CaskFrame

\* m.close: close(m.closeChan), once.
CloseChan ==
    /\ ~closeChan
    /\ closeChan' = TRUE
    /\ UNCHANGED <<handlerPc, handlerReq, ids, caskAdds, putPc, putReq, putRes,
                   putCalls>>
    /\ CaskFrame

----------------------------------------------------------------------------
(* The user handlers of the service.  d.iam is not in the repository's     *)
(* files: it is taken to keep one record per username in the KV store      *)
(* (section 4.I: atomic single-key put), the admin account among them.     *)

NUserNames == 2
NPasswords == 2
NPolicies == 1
MaxCapacity == 1
NCallers == 2
MaxUserCalls == 3

\* Usernames; the admin account's name is Admin.
Admin == 0
UserNames == 0..NUserNames
Passwords == 1..NPasswords
Policies == 1..NPolicies
Capacities == 0..MaxCapacity
Callers == 1..NCallers

\* An empty string or a zero, as a field of a request.
NotGiven == 0

\* dpuser.DagPoolUser; there says whether the record exists.
DagPoolUser(password, policy, capacity) ==
    [there |-> TRUE, password |-> password, policy |-> policy, capacity |-> capacity]

NoUser == [there |-> FALSE, password |-> NotGiven, policy |-> NotGiven,
           capacity |-> NotGiven]

AdminAccount == DagPoolUser(1, NPolicies, 0)

\* A request: the handler, the name it is about, the record it carries, the
\* caller's username and password, and the copy u that UpdateUser works on.
NoUserCall == [op |-> "none", name |-> Admin, rec |-> NoUser, user |-> Admin,
               password |-> NotGiven, u |-> NoUser]

UserCall(op, name, rec, user, password) ==
    [op |-> op, name |-> name, rec |-> rec, user |-> user, password |-> password,
     u |-> NoUser]

\* A reply: the handler, the name it was about, the caller's username and
\* password, the outcome and the record returned.
UserReply(req, st, rec) ==
    [op |-> req.op, name |-> req.name, user |-> req.user, password |-> req.password,
     st |-> st, rec |-> rec]

UserInit ==
    /\ users = [n \in UserNames |-> IF n = Admin THEN AdminAccount ELSE NoUser]
    /\ userPc = [c \in Callers |-> "idle"]
    /\ userCall = [c \in Callers |-> NoUserCall]
    /\ userRes = UserReply(NoUserCall, "none", NoUser)
    /\ userCalls = 0

\* d.iam.IsAdmin(username)
IsAdmin(name) == name = Admin

\* d.iam.CheckAdmin(user, password) on table t
CheckAdmin(t, user, password) == IsAdmin(user) /\ t[Admin].password = password

\* d.iam.CheckUser(user, password) on table t
CheckUser(t, user, password) == t[user].there /\ t[user].password = password

\* The handler of caller c returns st and rec for request req.
UserReturn(c, req, st, rec) ==
    /\ userPc' = [userPc EXCEPT ![c] = "idle"]
    /\ userCall' = [userCall EXCEPT ![c] = NoUserCall]
    /\ userRes' = UserReply(req, st, rec)

\* The handler of caller c goes on with request req at label.
UserGoto(c, req, label) ==
    /\ userPc' = [userPc EXCEPT ![c] = label]
    /\ userCall' = [userCall EXCEPT ![c] = req]
    /\ UNCHANGED userRes

\* A request of caller c is issued.
UserBegin(c) ==
    /\ userPc[c] = "idle"
    /\ userCalls < MaxUserCalls
    /\ userCalls' = userCalls + 1

\* AddUser up to d.iam.AddUser: the admin check, the refusal of the admin's
\* name and the lookup of the name.
AddUser(c, name, newUser, user, password) ==
    LET req == UserCall("AddUser", name, newUser, user, password) IN
    /\ UserBegin(c)
    /\ IF ~CheckAdmin(users, user, password) THEN UserReturn(c, req, "denied", NoUser)
       ELSE IF IsAdmin(name) THEN UserReturn(c, req, "exists", NoUser)
       ELSE IF users[name].there THEN UserReturn(c, req, "exists", NoUser)
       ELSE UserGoto(c, req, "add")
    /\ UNCHANGED users
    /\ UserFrame

\* return d.iam.AddUser(newUser)
iamAddUser(c) ==
    /\ userPc[c] = "add"
    /\ users' = [users EXCEPT ![userCall[c].name] = userCall[c].rec]
    /\ UserReturn(c, userCall[c], "ok", NoUser)
    /\ UNCHANGED userCalls
    /\ UserFrame

\* RemoveUser: the admin check, the refusal of the admin's name and
\* d.iam.RemoveUser.
RemoveUser(c, name, user, password) ==
    LET req == UserCall("RemoveUser", name, NoUser, user, password) IN
    /\ UserBegin(c)
    /\ IF ~CheckAdmin(users, user, password)
         THEN UserReturn(c, req, "denied", NoUser) /\ UNCHANGED users
         ELSE IF IsAdmin(name)
           THEN UserReturn(c, req, "refused", NoUser) /\ UNCHANGED users
           ELSE /\ users' = [users EXCEPT ![name] = NoUser]
                /\ UserReturn(c, req, IF users[name].there THEN "ok" ELSE "notfound", NoUser)
    /\ UserFrame

\* The record u after the fields of uUser that are given are written to it.
Updated(u, uUser) ==
    [there |-> TRUE,
     password |-> IF uUser.password # NotGiven THEN uUser.password ELSE u.password,
     policy |-> IF uUser.policy # NotGiven THEN uUser.policy ELSE u.policy,
     capacity |-> IF uUser.capacity # NotGiven THEN uUser.capacity ELSE u.capacity]

\* UpdateUser up to d.iam.UpdateUser: the admin check, the refusal of the
\* admin's name, the lookup of the record and the fields written to the copy.
UpdateUser(c, name, uUser, user, password) ==
    LET req == UserCall("UpdateUser", name, uUser, user, password) IN
    /\ UserBegin(c)
    /\ IF ~CheckAdmin(users, user, password) THEN UserReturn(c, req, "denied", NoUser)
       ELSE IF IsAdmin(name) THEN UserReturn(c, req, "refused", NoUser)
       ELSE IF ~users[name].there THEN UserReturn(c, req, "notfound", NoUser)
       ELSE UserGoto(c, [req EXCEPT !.u = Updated(users[name], uUser)], "update")
    /\ UNCHANGED users
    /\ UserFrame

\* return d.iam.UpdateUser(*u)
iamUpdateUser(c) ==
    /\ userPc[c] = "update"
    /\ users' = [users EXCEPT ![userCall[c].name] = userCall[c].u]
    /\ UserReturn(c, userCall[c], "ok", NoUser)
    /\ UNCHANGED userCalls
    /\ UserFrame

\* The checks of QueryUser as they would be if a name with no record were
\* reported before the caller is looked at.
QueryUserCheckLeaks(t, qUser, user, password) ==
    IF ~t[qUser].there THEN "notfound"
    ELSE IF ~CheckUser(t, user, password) THEN "denied"
    ELSE IF IsAdmin(user) THEN "query"
    ELSE IF qUser # user THEN "denied"
    ELSE "query"

\* The checks of QueryUser on table t: the caller's credentials, then admin
\* or self.
QueryUserCheck(t, qUser, user, password) ==
    IF ~CheckUser(t, user, password) THEN "denied"
    ELSE IF IsAdmin(user) THEN "query"
    ELSE IF qUser # user THEN "denied"
    ELSE "query"

QueryUser(c, qUser, user, password) ==
    LET req == UserCall("QueryUser", qUser, NoUser, user, password)
        st == QueryUserCheck(users, qUser, user, password)
    IN  /\ UserBegin(c)
        /\ IF st = "query" THEN UserGoto(c, req, "query")
                           ELSE UserReturn(c, req, st, NoUser)
        /\ UNCHANGED users
        /\ UserFrame

\* return d.iam.QueryUser(qUser)
iamQueryUser(c) ==
    /\ userPc[c] = "query"
    /\ IF users[userCall[c].name].there
         THEN UserReturn(c, userCall[c], "ok", users[userCall[c].name])
         ELSE UserReturn(c, userCall[c], "notfound", NoUser)
    /\ UNCHANGED <<users, userCalls>>
    /\ UserFrame

----------------------------------------------------------------------------
(* StorageSys, the object store over the pool, for one (bucket, object).   *)
(* dagpoolcli, the namespace lock and the metadata store are not in the    *)
(* repository's files.  A DAG is taken as one pinned block of the pool:    *)
(* BalanceNode adds it with pin (refCounter.IncrOrCreate), RemoveDAG       *)
(* removes it with unpin (refCounter.Decr), DagPool.Get finds it while its *)
(* count is at least 1.  The lock is a readers-writer lock, the metadata   *)
(* store a KV store with atomic single-key put and delete.                 *)

NObjCallers == 2
NCids == 2
MaxObjCalls == 4

ObjCallers == 1..NObjCallers
ObjCids == 1..NCids
NoObjCaller == 0

\* s.Db.Get reports leveldb.ErrNotFound.
NoMeta == 0

ObjReply(op, st, c) == [op |-> op, st |-> st, cid |-> c]

ObjInit ==
    /\ objMeta = NoMeta
    /\ dagRef = [c \in ObjCids |-> 0]
    /\ nsLock = [w |-> NoObjCaller, r |-> {}]
    /\ objPc = [p \in ObjCallers |-> "idle"]
    /\ objCall = [p \in ObjCallers |-> NoMeta]
    /\ removals = [c \in ObjCids |-> 0]
    /\ objRes = ObjReply("none", "none", NoMeta)
    /\ objCalls = 0

\* lk.GetLock and lk.GetRLock can be granted.
LockFree == nsLock.w = NoObjCaller /\ nsLock.r = {}
RLockFree == nsLock.w = NoObjCaller

\* The call of caller p returns st and c.
ObjReturn(p, op, st, c) ==
    /\ objPc' = [objPc EXCEPT ![p] = "idle"]
    /\ objCall' = [objCall EXCEPT ![p] = NoMeta]
    /\ objRes' = ObjReply(op, st, c)

\* The call of caller p goes on with cid c at label.
ObjGoto(p, c, label) ==
    /\ objPc' = [objPc EXCEPT ![p] = label]
    /\ objCall' = [objCall EXCEPT ![p] = c]
    /\ UNCHANGED objRes

\* A call of caller p is issued.
ObjBegin(p) ==
    /\ objPc[p] = "idle"
    /\ objCalls < MaxObjCalls
    /\ objCalls' = objCalls + 1

\* go func() { dagpoolcli.RemoveDAG(ctx, s.DagPool, c) }()
GoRemoveDAG(c) == [removals EXCEPT ![c] = @ + 1]

\* StoreObject of content with cid c, up to the object's lock: the bucket
\* check, BalanceNode (added: "ok", or "error" with nothing pinned) and the
\* check of ctx.Done() (added = "cancelled": the DAG stays pinned).
StoreObject(p, c, hasBucket, added) ==
    /\ ObjBegin(p)
    /\ IF ~hasBucket
         THEN ObjReturn(p, "StoreObject", "BucketNotFound", c) /\ UNCHANGED dagRef
         ELSE IF added = "error"
           THEN ObjReturn(p, "StoreObject", "error", c) /\ UNCHANGED dagRef
           ELSE /\ dagRef' = [dagRef EXCEPT ![c] = @ + 1]
                /\ IF added = "cancelled"
                     THEN ObjReturn(p, "StoreObject", "error", c)
                     ELSE ObjGoto(p, c, "lock")
    /\ UNCHANGED <<objMeta, nsLock, removals>>
    /\ ObjFrame

\* StoreObject: lk.GetLock, which times out only while the lock is held,
\* then getObjectInfo and the goroutine that removes the old DAG.
StoreObjectLock(p, locked) ==
    /\ objPc[p] = "lock"
    /\ IF ~locked
         THEN /\ ~LockFree
              /\ ObjReturn(p, "StoreObject", "error", objCall[p])
              /\ UNCHANGED <<nsLock, removals>>
         ELSE /\ LockFree
              /\ nsLock' = [nsLock EXCEPT !.w = p]
              /\ removals' = IF objMeta # NoMeta THEN GoRemoveDAG(objMeta) ELSE removals
              /\ ObjGoto(p, objCall[p], "put")
    /\ UNCHANGED <<objMeta, dagRef, objCalls>>
    /\ ObjFrame

\* StoreObject: s.Db.Put of the new ObjectInfo, and the deferred lk.Unlock.
StoreObjectPut(p, putOk) ==
    /\ objPc[p] = "put"
    /\ objMeta' = IF putOk THEN objCall[p] ELSE objMeta
    /\ nsLock' = [nsLock EXCEPT !.w = NoObjCaller]
    /\ ObjReturn(p, "StoreObject", IF putOk THEN "ok" ELSE "error", objCall[p])
    /\ UNCHANGED <<dagRef, removals, objCalls>>
    /\ ObjFrame

\* GetObject: lk.GetRLock and s.Db.Get.
GetObject(p) ==
    /\ ObjBegin(p)
    /\ RLockFree
    /\ IF objMeta = NoMeta
         THEN ObjReturn(p, "GetObject", "notfound", NoMeta) /\ UNCHANGED nsLock
         ELSE /\ nsLock' = [nsLock EXCEPT !.r = @ \cup {p}]
              /\ ObjGoto(p, objMeta, "get")
    /\ UNCHANGED <<objMeta, dagRef, removals>>
    /\ ObjFrame

\* GetObject: s.DagPool.Get of the cid read, and the deferred lk.RUnlock.
GetDag(p) ==
    /\ objPc[p] = "get"
    /\ nsLock' = [nsLock EXCEPT !.r = @ \ {p}]
    /\ ObjReturn(p, "GetObject", IF dagRef[objCall[p]] >= 1 THEN "ok" ELSE "error",
                 objCall[p])
    /\ UNCHANGED <<objMeta, dagRef, removals, objCalls>>
    /\ ObjFrame

\* GetObjectInfo: lk.GetRLock and getObjectInfo.
GetObjectInfo(p) ==
    /\ ObjBegin(p)
    /\ RLockFree
    /\ ObjReturn(p, "GetObjectInfo", IF objMeta = NoMeta THEN "notfound" ELSE "ok", objMeta)
    /\ UNCHANGED <<objMeta, dagRef, nsLock, removals>>
    /\ ObjFrame

\* DeleteObject as it would be if the metadata were left for the goroutine
\* to delete.
DeleteObjectLater(p, deleted) ==
    /\ ObjBegin(p)
    /\ LockFree
    /\ IF objMeta = NoMeta
         THEN ObjReturn(p, "DeleteObject", "notfound", NoMeta) /\ UNCHANGED removals
         ELSE IF ~deleted
           THEN ObjReturn(p, "DeleteObject", "error", objMeta) /\ UNCHANGED removals
           ELSE /\ removals' = GoRemoveDAG(objMeta)
                /\ ObjReturn(p, "DeleteObject", "ok", objMeta)
    /\ UNCHANGED <<objMeta, dagRef, nsLock>>
    /\ ObjFrame

\* DeleteObject: lk.GetLock, s.Db.Get, s.Db.Delete (deleted: it succeeds) and
\* the goroutine that removes the DAG.
DeleteObject(p, deleted) ==
    /\ ObjBegin(p)
    /\ LockFree
    /\ IF objMeta = NoMeta
         THEN ObjReturn(p, "DeleteObject", "notfound", NoMeta)
                /\ UNCHANGED <<objMeta, removals>>
         ELSE IF ~deleted
           THEN ObjReturn(p, "DeleteObject", "error", objMeta)
                  /\ UNCHANGED <<objMeta, removals>>
           ELSE /\ objMeta' = NoMeta
                /\ removals' = GoRemoveDAG(objMeta)
                /\ ObjReturn(p, "DeleteObject", "ok", objMeta)
    /\ UNCHANGED <<dagRef, nsLock>>
    /\ ObjFrame

\* A goroutine started for cid c runs dagpoolcli.RemoveDAG: the count of the
\* DAG is decremented (done), or the removal fails and leaves it (the pool
\* cannot be reached, or the context is cancelled by the time it runs).
RemoveDAG(c, done) ==
    /\ removals[c] > 0
    /\ removals' = [removals EXCEPT ![c] = @ - 1]
    /\ dagRef' = IF done /\ dagRef[c] > 0 THEN [dagRef EXCEPT ![c] = @ - 1] ELSE dagRef
    /\ UNCHANGED <<objMeta, nsLock, objPc, objCall, objRes, objCalls>>
    /\ ObjFrame

----------------------------------------------------------------------------
Init == PoolInit /\ NodeInit(1, 1) /\ MigIdle /\ StoreInit /\ RepoInit /\ CaskInit /\ UserInit /\ ObjInit

Next ==
    \/ \E p \in Procs : Add(p)
    \/ \E p \in Procs : HasRefCounter(p)
    \/ \E p \in Procs : HasCacheSet(p)
    \/ \E p \in Procs : AddPutBlock(p)
    \/ \E p \in Procs : AddCacheSet(p)
    \/ \E p \in Procs : IncrOrCreate(p)
    \/ \E p \in Procs : AddBlock(p)
    \/ \E p \in Procs : Get(p)
    \/ \E p \in Procs : ReadBlock(p)
    \/ \E p \in Procs : GetSize(p)
    \/ \E p \in Procs : ReadBlockSize(p)
    \/ \E p \in Procs : Remove(p)
    \/ GCStart
    \/ \E k \in Keys : GCCheck(k)
    \/ GCDelete
    \/ GCEnd

Spec == Init /\ [][Next]_vars

(* One DagNode on its own, for each erasure configuration. *)
InitNode ==
    /\ PoolInit
    /\ MigIdle
    /\ StoreInit
    /\ RepoInit
    /\ CaskInit
    /\ UserInit
    /\ ObjInit
    /\ \E k \in 1..MaxDataBlocks, m \in 1..MaxParityBlocks : NodeInit(k, m)

NextNode ==
    \/ \E b \in NodePayloads, dbErr, onCreate \in BOOLEAN,
          failAt \in 0..(MaxDataBlocks + MaxParityBlocks) :
              DagNodePut(b, dbErr, failAt, onCreate)
    \/ \E c \in NodeCids, down \in SUBSET (1..(MaxDataBlocks + MaxParityBlocks)),
          debug \in BOOLEAN :
              DagNodeGet(c, down, debug)
    \/ \E c \in NodeCids, down \in SUBSET (1..(MaxDataBlocks + MaxParityBlocks)) :
              DagNodeGetSize(c, down)
    \/ \E c \in NodeCids, down \in SUBSET (1..(MaxDataBlocks + MaxParityBlocks)) :
              DagNodeHas(c, down)
    \/ \E c \in NodeCids, failAt \in 0..(MaxDataBlocks + MaxParityBlocks) :
              DagNodeDeleteBlock(c, failAt)

SpecNode == InitNode /\ [][NextNode]_vars

(* One DagNode whose slice nodes all answer, with shards damaged where they *)
(* are kept.                                                               *)
NextNodeDamaged ==
    \/ \E b \in NodePayloads : DagNodePut(b, FALSE, 0, FALSE)
    \/ \E i \in 1..(MaxDataBlocks + MaxParityBlocks), c \in NodeCids : CorruptShard(i, c)
    \/ \E c \in NodeCids, debug \in BOOLEAN : DagNodeGet(c, {}, debug)

SpecNodeDamaged == InitNode /\ [][NextNodeDamaged]_vars

(* The slot table under client traffic, admin calls, migrations and        *)
(* crashes, from a cluster whose slots are all assigned.                   *)
InitMig ==
    /\ PoolInit
    /\ NodeInit(1, 1)
    /\ StoreInit
    /\ RepoInit
    /\ CaskInit
    /\ UserInit
    /\ ObjInit
    /\ \E registered \in SUBSET DagNodeIds :
         /\ registered # {}
         /\ \E owners \in [Slots -> registered] : MigInit(registered, owners)

Engine ==
    \/ \E s \in Slots : Preparing(s)
    \/ \E s \in Slots, k \in MigKeys : Copying(s, k)
    \/ \E s \in Slots : Copied(s)
    \/ \E s \in Slots : Switching(s)
    \/ \E s \in Slots, k \in MigKeys : Deleting(s, k)
    \/ \E s \in Slots : Dropped(s)
    \/ Restart

NextMig ==
    \/ \E k \in MigKeys : RoutePut(k)
    \/ \E k \in MigKeys : RouteDelete(k)
    \/ \E k \in MigKeys : RouteGet(k)
    \/ RouteGetFrom
    \/ \E n \in DagNodeIds : AddDagNode(n)
    \/ \E n \in DagNodeIds : RemoveDagNode(n)
    \/ \E s \in Slots, to \in DagNodeIds : MigrateSlots(s, to)
    \/ Engine
    \/ Crash

SpecMig == InitMig /\ [][NextMig]_vars

\* The engine and the restart keep running.
SpecMigFair == SpecMig /\ WF_vars(Engine)

(* One cask under writes, reads, crashes, damage and recovery. *)
InitStore == PoolInit /\ NodeInit(1, 1) /\ MigIdle /\ StoreInit /\ RepoInit /\ CaskInit /\ UserInit /\ ObjInit

NextStore ==
    \/ \E k \in StoreKeys, v \in StoreValues : StorePut(k, v)
    \/ \E k \in StoreKeys : StoreDelete(k)
    \/ AppendHint
    \/ UpdateIndex
    \/ \E k \in StoreKeys : StoreGet(k)
    \/ \E torn \in BOOLEAN : StoreCrash(torn)
    \/ \E i \in 1..MaxStoreOps : Damage(i)
    \/ LoseHint
    \/ StoreOpen

SpecStore == InitStore /\ [][NextStore]_vars

(* One repo directory opened by several callers. *)
InitRepo == PoolInit /\ NodeInit(1, 1) /\ MigIdle /\ StoreInit /\ RepoInit /\ CaskInit /\ UserInit /\ ObjInit

NextRepo ==
    \/ \E o \in Openers, pathOk \in BOOLEAN, checkErr \in BOOLEAN :
         NewSliceNode(o, pathOk, checkErr)
    \/ \E o \in Openers, lockErr \in BOOLEAN : LockRepo(o, lockErr)
    \/ \E o \in Openers, built \in BOOLEAN : BuildCaskMap(o, built)
    \/ \E o \in Openers : SliceClose(o)

SpecRepo == InitRepo /\ [][NextRepo]_vars

(* One SliceNode creating casks on request. *)
InitCask == PoolInit /\ NodeInit(1, 1) /\ MigIdle /\ StoreInit /\ RepoInit /\ CaskInit /\ UserInit /\ ObjInit

NextCask ==
    \/ \E p \in Putters, id \in CaskIds : PutGetCask(p, id)
    \/ \E p \in Putters : SendCreateCask(p)
    \/ \E opened \in BOOLEAN : handleCreateCask(opened)
    \/ HandlerExit
    \/ \E p \in Putters : PutGetCreated(p)
    \/ \E p \in Putters, written \in BOOLEAN : PutShard(p, written)
    \/ CloseChan

SpecCask == InitCask /\ [][NextCask]_vars

(* The scheduler runs every goroutine that can take a step: the goroutine  *)
(* of handleCreateCask and each Put.                                       *)
CaskFairness ==
    /\ WF_vars(\E opened \in BOOLEAN : handleCreateCask(opened))
    /\ WF_vars(HandlerExit)
    /\ \A p \in Putters :
         /\ SF_vars(SendCreateCask(p))
         /\ WF_vars(PutGetCreated(p))
         /\ WF_vars(\E written \in BOOLEAN : PutShard(p, written))

SpecCaskFair == SpecCask /\ CaskFairness

(* The user handlers, called concurrently. *)
InitUser ==
    PoolInit /\ NodeInit(1, 1) /\ MigIdle /\ StoreInit /\ RepoInit /\ CaskInit /\ UserInit /\ ObjInit

\* The records a request carries: every field given, or some not.
GivenUsers ==
    {DagPoolUser(pw, pol, cap) : pw \in Passwords, pol \in Policies, cap \in Capacities}
PartUsers ==
    {DagPoolUser(pw, pol, cap) :
        pw \in Passwords \cup {NotGiven}, pol \in Policies \cup {NotGiven},
        cap \in Capacities}

NextUser ==
    \/ \E c \in Callers, name \in UserNames, newUser \in GivenUsers,
          user \in UserNames, password \in Passwords :
         AddUser(c, name, newUser, user, password)
    \/ \E c \in Callers : iamAddUser(c)
    \/ \E c \in Callers, name \in UserNames, user \in UserNames, password \in Passwords :
         RemoveUser(c, name, user, password)
    \/ \E c \in Callers, name \in UserNames, uUser \in PartUsers,
          user \in UserNames, password \in Passwords :
         UpdateUser(c, name, uUser, user, password)
    \/ \E c \in Callers : iamUpdateUser(c)
    \/ \E c \in Callers, qUser \in UserNames, user \in UserNames, password \in Passwords :
         QueryUser(c, qUser, user, password)
    \/ \E c \in Callers : iamQueryUser(c)

SpecUser == InitUser /\ [][NextUser]_vars

(* One object of the object store under concurrent calls. *)
InitObj ==
    PoolInit /\ NodeInit(1, 1) /\ MigIdle /\ StoreInit /\ RepoInit /\ CaskInit /\ UserInit /\ ObjInit

NextObj ==
    \/ \E p \in ObjCallers, c \in ObjCids, hasBucket \in BOOLEAN,
          added \in {"ok", "error", "cancelled"} :
         StoreObject(p, c, hasBucket, added)
    \/ \E p \in ObjCallers, locked \in BOOLEAN : StoreObjectLock(p, locked)
    \/ \E p \in ObjCallers, putOk \in BOOLEAN : StoreObjectPut(p, putOk)
    \/ \E p \in ObjCallers : GetObject(p)
    \/ \E p \in ObjCallers : GetDag(p)
    \/ \E p \in ObjCallers : GetObjectInfo(p)
    \/ \E p \in ObjCallers, deleted \in BOOLEAN : DeleteObject(p, deleted)
    \/ \E c \in ObjCids, done \in BOOLEAN : RemoveDAG(c, done)

SpecObj == InitObj /\ [][NextObj]_vars

----------------------------------------------------------------------------
(* Properties of the pool service (checked under Spec). *)

\* C1: pin accounting.  For a cid with no unpinned Add, once n pinned Adds
\* and m <= n unpinning Removes have returned nil and none is in flight,
\* the persisted count is n - m and Has(cid) is true iff n > m.
C1_PinAccounting ==
    \A k \in Keys :
        (/\ ~hist[k].unpinned
         /\ PinInFlight(k) = {}
         /\ hist[k].unpinOk <= hist[k].pinOk)
        => /\ refCounter[k] = hist[k].pinOk - hist[k].unpinOk
           /\ Has(k) <=> (hist[k].pinOk > hist[k].unpinOk)

\* Two pinned Adds and one unpinning Remove of a cid have returned.
C1_Witness ==
    \E k \in Keys :
        /\ ~hist[k].unpinned
        /\ PinInFlight(k) = {}
        /\ hist[k].pinOk = 2
        /\ hist[k].unpinOk = 1
        /\ refCounter[k] = 1

\* C2: pinned/cached exclusion.  In every reachable state no cid is both in
\* the cache set and in the ref counter with a count of at least 1.
C2_PinnedCachedExclusion ==
    \A k \in Keys : ~(CacheSetHas(k) /\ RefCounterHas(k))

\* C3: duplicate pin concurrency.  When only pinned Adds of a cid were
\* issued, on a cid with no count, and no put failed, then once all have
\* returned exactly one putBlock was issued, all returned nil and the count
\* is the number of calls.
C3_DuplicatePin ==
    \A k \in Keys :
        (/\ hist[k].pins >= 1
         /\ ~hist[k].unpinned
         /\ ~hist[k].removed
         /\ ~hist[k].putFailed
         /\ PinInFlight(k) = {})
        => /\ hist[k].puts = 1
           /\ hist[k].pinOk = hist[k].pins
           /\ refCounter[k] = hist[k].pins

\* Pinned Adds of one cid ran concurrently and all have returned.
C3_Witness ==
    \E k \in Keys :
        /\ hist[k].overlap
        /\ hist[k].pins >= 2
        /\ ~hist[k].unpinned
        /\ ~hist[k].removed
        /\ ~hist[k].putFailed
        /\ PinInFlight(k) = {}

\* C4: GC safety.  The collector never deletes the block of a cid that has
\* a count of at least 1 or is in the cache set at the moment of the delete.
C4_GCSafety ==
    [][\A k \in Keys :
         (blockStore[k] # NoBlock /\ blockStore'[k] = NoBlock)
         => (~RefCounterHas(k) /\ ~CacheSetHas(k))]_vars

\* C5: read-your-writes.  A Get issued after an Add of its cid returned nil,
\* with no Remove of the cid since, returns the added payload.
C5_ReadYourWrites ==
    (res.req.op = "Get" /\ res.req.after /\ res.st # "denied")
    => (res.st = "ok" /\ res.data # NoBlock /\ CidOf(res.data) = res.req.key)

C15_GarbageIsCollected ==
    [][(gcPc = "scan" /\ gcPc' = "idle" /\ ~gcInterrupt)
        => \A k \in Keys : (hist[k].garbage /\ ~hist[k].unpinned)
                            => blockStore'[k] = NoBlock]_vars

\* A cycle has ended and the block of a cid whose last pin was removed
\* before it is deleted.
C15_Witness ==
    /\ gcPc = "idle"
    /\ \E k \in Keys : /\ hist[k].garbage
                       /\ ~hist[k].unpinned
                       /\ hist[k].unpinOk >= 1
                       /\ ~Has(k)
                       /\ blockStore[k] = NoBlock

\* C16: access denial changes nothing.  A call that returns AccessDenied
\* leaves the counts, the cache set, the stored blocks, the key locks and the
\* collector (its interrupt flag included) as they were.
C16_DeniedChangesNothing ==
    [][(calls' = calls + 1 /\ res'.st = "denied" /\ pc' = pc)
        => UNCHANGED <<refCounter, cacheSet, blockStore, keyLock, gcPc, gcTodo,
                       gcKey, gcInterrupt>>]_vars

\* A pinned Add was denied while a collector cycle was running, and the
\* cycle is not interrupted.
C16_Witness ==
    /\ res.st = "denied"
    /\ res.req.op = "Add"
    /\ res.req.flag
    /\ gcPc = "scan"
    /\ gcTodo # {}
    /\ ~gcInterrupt

\* C17: a Get or GetSize whose Has check ends while the key has neither a
\* count nor a place in the cache set returns NotFound and does not go on to
\* read the DagNode, whether or not the block is still stored there.
C17_NotFoundWithoutRead ==
    [][\A p \in Procs :
         (/\ pc[p] \in {"hasRef", "hasCache"}
          /\ call[p].op \in {"Get", "GetSize"}
          /\ ~HasIn(refCounter, cacheSet, call[p].key)
          /\ pc'[p] # pc[p])
         => /\ pc'[p] # "read"
            /\ pc'[p] = "idle" => (res'.st = "notfound" /\ res'.req = call[p])]_vars

\* A Get returned NotFound for a cid that was unpinned to zero and whose
\* block the DagNode still holds.
C17_Witness ==
    /\ res.req.op = "Get"
    /\ res.st = "notfound"
    /\ hist[res.req.key].unpinOk >= 1
    /\ ~Has(res.req.key)
    /\ blockStore[res.req.key] # NoBlock

\* C18: unpin to zero.  When a Remove takes the count of a key from 1 to 0
\* the key is not put into the cache set, and right after the step the key
\* is in neither structure.
C18_UnpinToZero ==
    [][\A k \in Keys :
         (refCounter[k] = 1 /\ refCounter'[k] = 0)
         => (k \notin cacheSet' /\ ~HasIn(refCounter', cacheSet', k))]_vars

\* C19: a cached block becomes pinned.  For a cid whose calls are
\* Add(pin=false), then Add(pin=true), then Remove(unpin=true), one after the
\* other: while it is only cached it is in the cache set and the collector
\* keeps its block; once pinned it has count 1 and is out of the cache set;
\* once unpinned it is in neither structure, and an uninterrupted collector
\* cycle started then deletes its block.
C19_CachedBecomesPinned ==
    [][\A k \in Keys :
         /\ hist'[k].phase = "cached"
              => (k \in cacheSet' /\ refCounter'[k] = 0 /\ blockStore'[k] # NoBlock)
         /\ hist'[k].phase = "pinned"
              => (k \notin cacheSet' /\ refCounter'[k] = 1 /\ blockStore'[k] # NoBlock)
         /\ hist'[k].phase = "unpinned"
              => (k \notin cacheSet' /\ refCounter'[k] = 0)
         /\ (/\ gcPc = "scan" /\ gcPc' = "idle" /\ ~gcInterrupt
             /\ hist[k].phase = "unpinned" /\ hist[k].garbage)
              => blockStore'[k] = NoBlock]_vars

\* The whole sequence has run and a collector cycle after it has deleted the
\* block.
C19_Witness ==
    /\ gcPc = "idle"
    /\ \E k \in Keys : /\ hist[k].phase = "unpinned"
                       /\ hist[k].garbage
                       /\ blockStore[k] = NoBlock

C32_HasImpliesStored ==
    \A k \in Keys :
        (Has(k) /\ \A p \in InFlight(k) : call[p].op # "Add")
          => blockStore[k] # NoBlock

\* C23: unpinned Add.  An authorized Add(block, pin=false) whose Has answered
\* true returns nil having put nothing and changed neither the counts nor
\* the cache set; one whose Has answered false puts the block and then
\* inserts the key into the cache set, and returns the error with the cache
\* set unchanged if the put fails; a key is never inserted into the cache set
\* while it is pinned.
C23_UnpinnedAdd ==
    [][\A p \in Procs :
         (call[p].op = "Add" /\ ~call[p].flag)
         => /\ (pc[p] \in {"hasRef", "hasCache"} /\ pc'[p] = "idle")
                 => /\ res' = Reply(call[p], "ok")
                    /\ UNCHANGED <<refCounter, cacheSet, blockStore>>
                    /\ hist'[call[p].key].puts = hist[call[p].key].puts
            /\ (pc[p] \in {"hasRef", "hasCache"} /\ pc'[p] = "put")
                 => UNCHANGED <<refCounter, cacheSet, blockStore>>
            /\ (pc[p] = "put" /\ pc'[p] = "idle")
                 => /\ res' = Reply(call[p], "puterr")
                    /\ UNCHANGED <<refCounter, cacheSet, blockStore>>
            /\ (pc[p] = "put" /\ pc'[p] = "cacheAdd")
                 => /\ blockStore'[call[p].key] = call[p].block
                    /\ UNCHANGED <<refCounter, cacheSet>>
            /\ (pc[p] = "cacheAdd" /\ pc'[p] = "idle")
                 => /\ res' = Reply(call[p], "ok")
                    /\ cacheSet' = cacheSet \cup {call[p].key}
                    /\ refCounter' = refCounter
                    /\ refCounter[call[p].key] = 0]_vars

\* C24: Remove(cid, unpin=false) by an authorized writer returns nil and
\* leaves the counts, the cache set, the locks and the DagNodes' contents as
\* they were.
C24_RemoveNoUnpinIsNoOp ==
    [][(/\ calls' = calls + 1
        /\ pc' = pc
        /\ res'.req.op = "Remove"
        /\ ~res'.req.flag
        /\ res'.st # "denied")
       => /\ res'.st = "ok"
          /\ UNCHANGED <<refCounter, cacheSet, blockStore, keyLock, gcPc, gcTodo,
                         gcKey, gcInterrupt>>]_vars

\* A Remove(unpin=false) of a pinned, stored cid returned nil.
C24_Witness ==
    /\ res.req.op = "Remove"
    /\ ~res.req.flag
    /\ res.st = "ok"
    /\ refCounter[res.req.key] >= 1
    /\ blockStore[res.req.key] # NoBlock
    /\ hist[res.req.key].unpinOk = 0

\* C25: GC interruption.  An authorized Add(pin=true) raises the interrupt
\* in its first step, with the ref counter untouched; a cycle that has been
\* interrupted starts no delete, and no delete of an interrupted cycle was
\* of a cid that was pinned or in the cache set when it was deleted.
C25_GCInterruption ==
    /\ [][\A p \in Procs :
            (pc[p] = "idle" /\ pc'[p] = "incr")
            => /\ gcInterrupt' = (gcInterrupt \/ gcPc # "idle")
               /\ refCounter' = refCounter]_vars
    /\ [][gcInterrupt => ~(gcPc = "scan" /\ gcPc' = "delete")]_vars
    /\ [](gcPc # "idle" /\ gcInterrupt => \A k \in Keys : ~hist[k].swept)

----------------------------------------------------------------------------
(* Properties of one DagNode (checked under SpecNode). *)

\* C7: erasure read availability.  A Get of a stored block succeeds and
\* returns the original payload whenever at least k of the k+m slice nodes
\* answer with their shard, whichever they are.
C7_ErasureReadAvailability ==
    (/\ nodeRes.op = "Get"
     /\ nodeRes.cid \in stored
     /\ Cardinality(nodes \ nodeRes.down) >= dataBlocks)
    => (nodeRes.st = "ok" /\ nodeRes.data = RawData(nodeRes.cid))

\* C8: all-or-nothing Put.  A Put that returns an error for a block no slice
\* node held before leaves no shard of it on any slice node.
C8_AllOrNothingPut ==
    (nodeRes.op = "Put" /\ nodeRes.st = "err" /\ nodeRes.clean)
    => \A i \in nodes : sha256String(nodeRes.cid) \notin DOMAIN casks[i]

\* C9: GetSize of a stored block returns the length of the payload that was
\* put, not the padded or per-shard length.
C9_GetSizeIsPayloadLength ==
    (nodeRes.op = "GetSize" /\ nodeRes.st = "ok" /\ nodeRes.cid \in stored)
    => nodeRes.size = Len(RawData(nodeRes.cid))

\* C10: DagNode round trip.  After Put(block) returned nil, a Get of its cid
\* with every slice node answering returns exactly the payload that was put.
C10_RoundTrip ==
    (nodeRes.op = "Get" /\ nodeRes.cid \in stored /\ nodeRes.down = {})
    => (nodeRes.st = "ok" /\ nodeRes.data = RawData(nodeRes.cid))

\* A Get, with every slice node answering, of a stored block whose payload
\* had to be padded before it was cut into shards.
C10_Witness ==
    /\ nodeRes.op = "Get"
    /\ nodeRes.cid \in stored
    /\ nodeRes.down = {}
    /\ nodeRes.st = "ok"
    /\ Len(RawData(nodeRes.cid)) % dataBlocks # 0

\* C28: DagNode delete.  DeleteBlock issues the delete to every slice node,
\* so that afterwards only a slice node whose delete failed still holds a
\* shard of the block, and it returns nil if and only if at least dataBlocks
\* slice nodes no longer hold one.
C28_DeleteReachesEveryMember ==
    [][(nodeRes'.op = "DeleteBlock" /\ nodeOps' = nodeOps + 1)
       => LET keyCode == sha256String(nodeRes'.cid)
              left == {i \in nodes : keyCode \in DOMAIN casks'[i]}
          IN  /\ Cardinality(left) <= 1
              /\ nodeRes'.st = "ok"
                   <=> Cardinality(nodes \ left) >= dataBlocks]_vars

\* C30: hash check on read.  Get never returns a block whose bytes do not
\* hash to the requested cid, and when every slice node answers and the
\* trimmed data does not hash to the cid it returns a hash mismatch.
C30_HashCheckOnRead ==
    /\ []((nodeRes.op = "Get" /\ nodeRes.st = "ok")
            => NodeCid(nodeRes.data) = nodeRes.cid)
    /\ [][(/\ nodeRes'.op = "Get"
           /\ nodeOps' = nodeOps + 1
           /\ nodeRes'.cid \in DOMAIN db
           /\ \A i \in nodes : ~Unserved(i, sha256String(nodeRes'.cid), nodeRes'.down)
           /\ GetBlock(nodeRes'.cid, nodeRes'.down, TRUE).st = "hashmismatch")
          => nodeRes'.st = "hashmismatch"]_vars

----------------------------------------------------------------------------
(* Properties of the slot table and of migrations (checked under SpecMig;  *)
(* C14 under SpecMigFair).                                                 *)

C12_WriteDuringMigration ==
    [][\A k \in MigKeys :
         /\ (k \notin during /\ k \in during')
              => /\ k \in held'[slotMigrateRepo[SlotOf(k)].to]
                 /\ held'[slotMigrateRepo[SlotOf(k)].from]
                      = held[slotMigrateRepo[SlotOf(k)].from]
         /\ k \in during' => k \in held'[slots'[SlotOf(k)]]
         /\ (k \in during' /\ getting' = NoGet /\ migRes'.key = k /\ migRes'.wasLive)
              => migRes'.found]_vars

\* A key written during the migration was read back after the deletions of
\* the DONE phase.
C12_Witness ==
    /\ \E k \in during : /\ slotMigrateRepo[SlotOf(k)].state = "DONE"
                         /\ migTodo = {}
                         /\ migRes.key = k
                         /\ migRes.found
    /\ \E k \in live \ during : k \in held[slots[SlotOf(k)]]
    /\ up

Readable(k) ==
    \/ k \in held[slots[SlotOf(k)]]
    \/ /\ importingSlotsFrom[SlotOf(k)] # NoNode
       /\ k \in held[importingSlotsFrom[SlotOf(k)]]

\* C14: migration crash recovery.  Whatever the journal state at a crash,
\* no live block is ever lost, and every migration in the journal is
\* eventually completed: the target owns the slot, importing_from is clear,
\* every live key of the slot is on the target and the entry is dropped.
C14_CrashRecovery ==
    /\ [](\A k \in live : Readable(k))
    /\ \A s \in Slots, t \in DagNodeIds :
         (slotMigrateRepo[s].to = t)
         ~> (/\ slotMigrateRepo[s] = NoEntry
             /\ slots[s] = t
             /\ importingSlotsFrom[s] = NoNode
             /\ \A k \in live : SlotOf(k) = s => k \in held[t])

\* A migration that was replayed after a crash is complete and a key that
\* was on `from` is on the new owner only.
C14_Witness ==
    /\ migCount.replayed
    /\ up
    /\ \A s \in Slots : slotMigrateRepo[s] = NoEntry
    /\ \E k \in live \ during :
         /\ k \in held[slots[SlotOf(k)]]
         /\ \A n \in DagNodeIds : n # slots[SlotOf(k)] => k \notin held[n]
    /\ migCount.migrations >= 1

NextState(state) ==
    CASE state = "none" -> "PREPARING"
      [] state = "PREPARING" -> "COPYING"
      [] state = "COPYING" -> "SWITCHING"
      [] state = "SWITCHING" -> "DONE"
      [] state = "DONE" -> "none"

\* C26: migration phase order.  The journal state of a slot only advances
\* PREPARING -> COPYING -> SWITCHING -> DONE; leaving PREPARING publishes
\* owner = to and importing_from = from; importing_from is cleared only when
\* every key of the slot held by `from` is on `to`; the engine deletes a key
\* on `from` only after importing_from has been cleared.
C26_PhaseOrder ==
    [][\A s \in Slots :
         LET e == slotMigrateRepo[s] IN
         /\ slotMigrateRepo'[s] # e
              => /\ slotMigrateRepo'[s].state = NextState(e.state)
                 /\ e.state # "none" /\ e.state # "DONE"
                      => (slotMigrateRepo'[s].from = e.from /\ slotMigrateRepo'[s].to = e.to)
         /\ (e.state = "PREPARING" /\ slotMigrateRepo'[s].state = "COPYING")
              => /\ slots'[s] = e.to
                 /\ importingSlotsFrom'[s] = e.from
         /\ (slots'[s] # slots[s] \/ importingSlotsFrom'[s] \notin {importingSlotsFrom[s], NoNode})
              => e.state = "PREPARING"
         /\ (importingSlotsFrom[s] # NoNode /\ importingSlotsFrom'[s] = NoNode)
              => /\ e.state = "SWITCHING"
                 /\ KeysOn(e.from, s) \subseteq held[e.to]
         /\ (/\ migCount'.ops = migCount.ops
             /\ e.state # "none"
             /\ \E k \in KeysOn(e.from, s) : k \notin held'[e.from])
              => /\ e.state = "DONE"
                 /\ importingSlotsFrom[s] = NoNode]_vars

\* A slot has gone through the four states and its journal entry is dropped,
\* with a key copied from `from` that is now on the new owner only.
C26_Witness ==
    /\ migCount.migrations = 1
    /\ \A s \in Slots : slotMigrateRepo[s] = NoEntry
    /\ ~migCount.replayed
    /\ migCount.crashes = 0
    /\ \E k \in live \ during :
         /\ k \in held[slots[SlotOf(k)]]
         /\ \A n \in DagNodeIds : n # slots[SlotOf(k)] => k \notin held[n]
         /\ \E k2 \in during : SlotOf(k2) = SlotOf(k)

----------------------------------------------------------------------------
(* Properties of the DataNode store (checked under SpecStore). *)

\* The smaller of two numbers.
Least(a, b) == IF a <= b THEN a ELSE b

TombstoneKept(k) == tombAt[k].pos # 0 /\ tombAt[k].kept

----------------------------------------------------------------------------
(* Properties of the repo lock (checked under SpecRepo). *)

\* C21: repo lock exclusivity.  At most one open SliceNode holds the repo
\* directory, and it holds repo.lock; a NewSliceNode that finds repo.lock
\* held, at its check or at its Lock when callers race, fails with
\* ErrRepoLocked or a lock error and builds no cask map; when the holder
\* closes, repo.lock is free for the next NewSliceNode.
C21_RepoLockExclusivity ==
    /\ [](Cardinality({o \in Openers : slicePc[o] = "open"}) <= 1)
    /\ [](\A o \in Openers :
            /\ slicePc[o] = "open" => repoLock = o /\ sliceCaskMap[o]
            /\ (sliceCaskMap[o] /\ slicePc[o] # "closed") => repoLock = o)
    /\ [][\A o \in Openers :
            (/\ repoLock # NoOpener
             /\ slicePc[o] \in {"idle", "closed", "checked"}
             /\ <<slicePc[o], sliceRes[o], sliceCaskMap[o]>>
                  # <<slicePc'[o], sliceRes'[o], sliceCaskMap'[o]>>)
            => /\ slicePc'[o] = "idle"
               /\ ~sliceCaskMap'[o]
               /\ sliceRes'[o].st # "ErrPath"
                    => sliceRes'[o].st \in {"ErrRepoLocked", "LockError"}]_vars
    /\ [][\A o \in Openers :
            (slicePc[o] = "open" /\ slicePc'[o] = "closed")
              => repoLock' = NoOpener]_vars

\* One caller has opened the directory after another had closed it, a third
\* was refused with ErrRepoLocked, and a Lock was lost to a racing caller.
C21_Witness ==
    /\ repoCount.raced
    /\ \E o \in Openers :
         /\ slicePc[o] = "open"
         /\ \E o2 \in Openers \ {o} : slicePc[o2] = "closed"
    /\ \E o3 \in Openers : sliceRes[o3].st \in {"ErrRepoLocked", "LockError"}

\* C39: failed open releases the repo lock.  When NewSliceNode returns an
\* error after it has taken repo.lock (building the cask map failed),
\* repo.lock is free again, so that no later NewSliceNode with no open
\* SliceNode on the directory is refused with ErrRepoLocked.
C39_FailedOpenReleasesLock ==
    /\ [][\A o \in Openers :
            (slicePc[o] = "locked" /\ slicePc'[o] = "idle")
              => repoLock' = NoOpener]_vars
    /\ [][\A o \in Openers :
            (/\ \A o2 \in Openers : slicePc[o2] \notin {"locked", "open"}
             /\ slicePc[o] \in {"idle", "closed"}
             /\ repoCount'.calls = repoCount.calls + 1
             /\ sliceRes'[o] # sliceRes[o])
            => sliceRes'[o].st # "ErrRepoLocked"]_vars

----------------------------------------------------------------------------
(* Properties of cask creation (checked under SpecCask and SpecCaskFair). *)

\* C33: Put never hangs on cask creation.  A Put that has a create-cask
\* request to send, or has sent one, eventually gets its answer and goes on,
\* also when the SliceNode is closed before or while the request is sent.
C33_PutNeverHangs ==
    \A p \in Putters :
        (putPc[p] \in {"send", "wait"}) ~> (putPc[p] \notin {"send", "wait"})

\* C38: cask creation is unique.  For each cask id at most one cask is ever
\* added to the cask map, also when several Puts find it missing and each
\* send a request; a Put that was answered ErrNone holds that one cask; a
\* request whose files could not be opened is answered with the error, adds
\* nothing and leaves the id free to be asked for again.
C38_CaskCreationUnique ==
    /\ [](\A id \in CaskIds :
            /\ caskAdds[id] <= 1
            /\ id \in ids <=> caskAdds[id] = 1)
    /\ [](\A p \in Putters :
            /\ putPc[p] = "put" => putReq[p].cask = 1 /\ caskAdds[putReq[p].id] = 1
            /\ putRes[p].st = "ok" => putRes[p].cask = 1 /\ caskAdds[putRes[p].id] = 1)
    /\ [][\A p \in Putters :
            (putPc[p] = "wait" /\ putPc'[p] = "idle")
              => /\ putRes'[p].st = "err"
                 /\ UNCHANGED <<ids, caskAdds>>
                 /\ putReq[p].id \notin ids']_vars

\* Two Puts found the same cask missing and both sent a request: the
\* goroutine holds the second request, for a cask it has already created and
\* added for the first.
C38_Witness ==
    /\ handlerPc = "handling"
    /\ putReq[handlerReq].id \in ids
    /\ caskAdds[putReq[handlerReq].id] = 1
    /\ \E q \in Putters \ {handlerReq} :
         /\ putReq[q].id = putReq[handlerReq].id
         /\ putPc[q] \in {"got", "put"} \/ putRes[q].st = "ok"

----------------------------------------------------------------------------
(* Properties of the user handlers (checked under SpecUser). *)

\* C34: user table protection.  A request that is answered AccessDenied
\* changes nothing, and only a handler whose caller passed CheckAdmin writes
\* the table; the admin account is never created, removed or altered;
\* AddUser never writes over a record that exists; UpdateUser changes a
\* record that exists, and of it only the fields its request gives.
C34_UserTableProtection ==
    /\ [](users[Admin] = AdminAccount)
    /\ [][(userCalls' = userCalls + 1 /\ userRes'.st = "denied")
            => users' = users]_vars
    /\ [][users' # users
            => \E c \in Callers :
                 \/ userPc[c] \in {"add", "update"}
                      /\ CheckAdmin(users, userCall[c].user, userCall[c].password)
                 \/ userRes'.op = "RemoveUser" /\ IsAdmin(userRes'.user)]_vars
    /\ [][\A c \in Callers :
            (userPc[c] = "add" /\ userPc'[c] = "idle")
              => ~users[userCall[c].name].there]_vars
    /\ [][\A c \in Callers :
            (userPc[c] = "update" /\ userPc'[c] = "idle")
              => /\ users[userCall[c].name].there
                 /\ users'[userCall[c].name]
                      = Updated(users[userCall[c].name], userCall[c].rec)]_vars

\* A caller of QueryUser who is let through on table t: valid credentials,
\* and the admin or asking for the caller's own name.
MayQuery(t, qUser, user, password) ==
    CheckUser(t, user, password) /\ (IsAdmin(user) \/ qUser = user)

\* C35: QueryUser hands a record only to a caller with valid credentials who is
\* the admin or asks for their own username; every other caller gets
\* AccessDenied with no record, and for such a caller the outcome is the same
\* whatever record, or none, the queried username has.
C35_QueryUserConfidentiality ==
    /\ [][\A c \in Callers :
            (userPc[c] = "idle" /\ userPc'[c] = "query")
              => MayQuery(users, userCall'[c].name, userCall'[c].user,
                          userCall'[c].password)]_vars
    /\ [][(userCalls' = userCalls + 1 /\ userPc' = userPc /\ userRes'.op = "QueryUser")
            => /\ userRes'.st = "denied"
               /\ userRes'.rec = NoUser
               /\ ~MayQuery(users, userRes'.name, userRes'.user, userRes'.password)]_vars
    /\ []((userRes.op = "QueryUser" /\ userRes.st # "denied")
            => (IsAdmin(userRes.user) \/ userRes.name = userRes.user))
    /\ [](\A qUser \in UserNames, user \in UserNames, password \in Passwords,
             rec \in GivenUsers \cup {NoUser} :
             LET t2 == [users EXCEPT ![qUser] = rec] IN
             (~MayQuery(users, qUser, user, password) /\ ~MayQuery(t2, qUser, user, password))
               => /\ QueryUserCheck(users, qUser, user, password) = "denied"
                  /\ QueryUserCheck(t2, qUser, user, password) = "denied")

\* A user with valid credentials who is not the admin has asked for another
\* user's record, which exists, and has been denied.
C35_Witness ==
    /\ userRes.op = "QueryUser"
    /\ userRes.st = "denied"
    /\ ~IsAdmin(userRes.user)
    /\ userRes.name # userRes.user
    /\ CheckUser(users, userRes.user, userRes.password)
    /\ users[userRes.name].there
    /\ ~IsAdmin(userRes.name)

----------------------------------------------------------------------------
(* Properties of the object store (checked under SpecObj). *)

\* No call is under way and no goroutine started to remove a DAG is left.
ObjQuiet ==
    /\ \A p \in ObjCallers : objPc[p] = "idle"
    /\ \A c \in ObjCids : removals[c] = 0

\* A call of op is issued and returns in this one step.
ObjDirect(op) == objCalls' = objCalls + 1 /\ objPc' = objPc /\ objRes'.op = op

\* C36: once the StoreObject calls on the object and the removals of the DAGs
\* they replaced have all completed, the DAG whose cid is in the object's
\* metadata has a reference count of at least 1, and a GetObject that reads
\* that cid gets the DAG.
C36_OverwriteKeepsLiveDagPinned ==
    /\ []((ObjQuiet /\ objMeta # NoMeta) => dagRef[objMeta] >= 1)
    /\ [][\A p \in ObjCallers :
            (objPc[p] = "get" /\ objPc'[p] = "idle"
               /\ \A c \in ObjCids : removals[c] = 0)
              => objRes' = ObjReply("GetObject", "ok", objMeta)]_vars

\* C37: a DeleteObject that returns success has deleted the metadata; while
\* there is no metadata every GetObject and GetObjectInfo returns not-found,
\* whether or not the DAG has been removed, and only a StoreObject that
\* completes brings metadata back; a GetObject that has read the metadata
\* keeps the delete out until it returns; DeleteObject with no metadata
\* returns ErrObjectNotFound and changes nothing.
C37_DeleteVisibleAtOnce ==
    /\ [][(ObjDirect("DeleteObject") /\ objRes'.st = "ok")
            => (objMeta # NoMeta /\ objMeta' = NoMeta)]_vars
    /\ [][(ObjDirect("DeleteObject") /\ objMeta = NoMeta)
            => /\ objRes'.st = "notfound"
               /\ UNCHANGED <<objMeta, dagRef, removals, nsLock>>]_vars
    /\ [][((ObjDirect("GetObject") \/ ObjDirect("GetObjectInfo")) /\ objMeta = NoMeta)
            => objRes'.st = "notfound"]_vars
    /\ [][\A p \in ObjCallers :
            (objPc[p] = "idle" /\ objPc'[p] = "get") => objMeta # NoMeta]_vars
    /\ [](\A p \in ObjCallers : objPc[p] = "get" => objMeta = objCall[p])
    /\ [][(objMeta = NoMeta /\ objMeta' # NoMeta)
            => \E p \in ObjCallers :
                 /\ objPc[p] = "put" /\ objPc'[p] = "idle"
                 /\ objRes' = ObjReply("StoreObject", "ok", objMeta')]_vars

\* An object has been stored and deleted, and a GetObject has returned
\* not-found while the goroutine removing its DAG has not run yet.
C37_Witness ==
    /\ objCalls = 3
    /\ objMeta = NoMeta
    /\ objRes = ObjReply("GetObject", "notfound", NoMeta)
    /\ \E c \in ObjCids : removals[c] = 1 /\ dagRef[c] >= 1

====
